---- MODULE Spec2Model ----
(***************************************************************************)
(* The voice service of Skynet: the WebSocket endpoint and its per-        *)
(* connection VoiceSession (voice/build/lib/src/server.py), the one-shot   *)
(* sentence splitter (sentencizer.py), the TTS markdown filter             *)
(* (voice/src/markdown_filter.py) and the shared TTS engine's settings     *)
(* (voice/src/tts.py).                                                     *)
(*                                                                         *)
(* A text is a tuple of characters, each a one-character string (the      *)
(* backtick, which a TLA+ string cannot hold, is the string Backtick).     *)
(* None is the empty tuple where the code tests the value for truth, and   *)
(* the string "None" for a message id.  Speeds are in hundredths.          *)
(***************************************************************************)
EXTENDS Integers, Sequences, FiniteSets, TLC

(***************************************************************************)
(* Bounds of the model.                                                    *)
(***************************************************************************)
\* Frames the peers send in one run, over all connections.
MaxFrames == 2

\* The websocket objects a run may see.
Conns == {"c1", "c2"}

(***************************************************************************)
(* Strings.                                                                *)
(***************************************************************************)
\* the backtick character
Backtick == "<backtick>"

\* str.isspace for the characters of the model
IsSpace(ch) == ch \in {" ", "\n", "\t"}

\* the characters \w matches
WordChars ==
  {"a","b","c","d","e","f","g","h","i","j","k","l","m","n","o","p","q","r","s",
   "t","u","v","w","x","y","z","A","B","C","D","E","F","G","H","I","J","K","L",
   "M","N","O","P","Q","R","S","T","U","V","W","X","Y","Z","0","1","2","3","4",
   "5","6","7","8","9","_"}

UpperToLower ==
  [A |-> "a", B |-> "b", C |-> "c", D |-> "d", E |-> "e", F |-> "f", G |-> "g",
   H |-> "h", I |-> "i", J |-> "j", K |-> "k", L |-> "l", M |-> "m", N |-> "n",
   O |-> "o", P |-> "p", Q |-> "q", R |-> "r", S |-> "s", T |-> "t", U |-> "u",
   V |-> "v", W |-> "w", X |-> "x", Y |-> "y", Z |-> "z"]

\* str.lower
lower(t) ==
  [k \in DOMAIN t |-> IF t[k] \in DOMAIN UpperToLower THEN UpperToLower[t[k]] ELSE t[k]]

RECURSIVE lstrip(_)
lstrip(t) == IF t # <<>> /\ IsSpace(Head(t)) THEN lstrip(Tail(t)) ELSE t

RECURSIVE rstrip(_)
rstrip(t) ==
  IF t # <<>> /\ IsSpace(t[Len(t)]) THEN rstrip(SubSeq(t, 1, Len(t) - 1)) ELSE t

\* str.strip
strip(t) == rstrip(lstrip(t))

\* the first index j >= i of t whose character is not in S, Len(t)+1 if none
RECURSIVE RunEnd(_, _, _)
RunEnd(t, i, S) == IF i <= Len(t) /\ t[i] \in S THEN RunEnd(t, i + 1, S) ELSE i

\* " ".join(parts)
RECURSIVE join(_)
join(parts) ==
  IF parts = <<>> THEN <<>>
  ELSE IF Len(parts) = 1 THEN parts[1]
  ELSE parts[1] \o <<" ">> \o join(Tail(parts))

(***************************************************************************)
(* sentencizer.split_into_sentences: the text is split at each run of      *)
(* whitespace that follows one of . ! ?, each piece is stripped and the    *)
(* empty pieces are dropped.                                               *)
(***************************************************************************)
RECURSIVE re_split(_, _, _, _)
re_split(t, i, piece, acc) ==
  IF i > Len(t) THEN Append(acc, piece)
  ELSE IF IsSpace(t[i]) /\ i > 1 /\ t[i - 1] \in {".", "!", "?"}
       THEN re_split(t, RunEnd(t, i, {" ", "\n", "\t"}), <<>>, Append(acc, piece))
       ELSE re_split(t, i + 1, Append(piece, t[i]), acc)

strip_all(pieces) == [k \in DOMAIN pieces |-> strip(pieces[k])]

split_into_sentences(text) ==
  SelectSeq(strip_all(re_split(text, 1, <<>>, <<>>)), LAMBDA s : s # <<>>)

(***************************************************************************)
(* sentencizer.StreamingSentencizer.  An instance is a record               *)
(* [min_sentence_length, min_clause_length, max_buffer_length, buffer].    *)
(* The two dashes among the clause endings are the strings EmDash and      *)
(* EnDash.  A boundary is the offset after the boundary character, 0 for   *)
(* None.                                                                   *)
(***************************************************************************)
SENTENCE_ENDINGS == {".", "!", "?"}

EmDash == "<emdash>"
EnDash == "<endash>"

CLAUSE_ENDINGS == {",", ":", ";", EmDash, EnDash}

ABBREVIATIONS ==
  {<<"m","r",".">>, <<"m","r","s",".">>, <<"m","s",".">>, <<"d","r",".">>,
   <<"p","r","o","f",".">>, <<"s","r",".">>, <<"j","r",".">>,
   <<"v","s",".">>, <<"e","t","c",".">>, <<"e",".","g",".">>,
   <<"i",".","e",".">>, <<"n","o",".">>, <<"n","o","s",".">>,
   <<"s","t",".">>, <<"a","v","e",".">>, <<"b","l","v","d",".">>,
   <<"r","d",".">>, <<"a","p","t",".">>, <<"d","e","p","t",".">>,
   <<"i","n","c",".">>, <<"l","t","d",".">>, <<"c","o","r","p",".">>,
   <<"c","o",".">>, <<"a",".","m",".">>, <<"p",".","m",".">>,
   <<"a",".","d",".">>, <<"b",".","c",".">>, <<"p","h",".","d",".">>,
   <<"m",".","d",".">>, <<"b",".","a",".">>, <<"m",".","a",".">>,
   <<"u",".","s",".">>, <<"u",".","k",".">>, <<"u",".","n",".">>}

\* StreamingSentencizer.__init__
NewSentencizer(min_sentence_length, min_clause_length, max_buffer_length) ==
  [min_sentence_length |-> min_sentence_length,
   min_clause_length |-> min_clause_length,
   max_buffer_length |-> max_buffer_length,
   buffer |-> <<>>]

\* str.endswith
endswith(t, suffix) ==
  /\ Len(suffix) <= Len(t)
  /\ SubSeq(t, Len(t) - Len(suffix) + 1, Len(t)) = suffix

\* str.isdigit on one character
isdigit(ch) == ch \in {"0", "1", "2", "3", "4", "5", "6", "7", "8", "9"}

endswith_abbreviation(text_lower) ==
  \E abbrev \in ABBREVIATIONS : endswith(text_lower, abbrev)

\* _is_abbreviation, were it to compare the text as it is spelled
is_abbreviation_as_spelled(text) == endswith_abbreviation(strip(text))
is_abbreviation(text) == endswith_abbreviation(strip(lower(text)))

\* _is_sentence_end, were it to take the dot after a digit for an ending
is_sentence_end_after_digit(char, buffer) ==
  /\ char \in SENTENCE_ENDINGS
  /\ ~is_abbreviation(Append(buffer, char))
is_sentence_end(char, buffer) ==
  /\ char \in SENTENCE_ENDINGS
  /\ ~is_abbreviation(Append(buffer, char))
  /\ ~(char = "." /\ buffer # <<>> /\ isdigit(buffer[Len(buffer)]))

\* text[:i], text[i:] and str.rfind(" ", 0, end) with Python's 0-based offsets
Upto(text, i) == SubSeq(text, 1, i)
From(text, i) == SubSeq(text, i + 1, Len(text))

RECURSIVE sentence_boundary_from(_, _)
sentence_boundary_from(text, i) ==
  IF i < 0 THEN 0
  ELSE IF is_sentence_end(text[i + 1], Upto(text, i)) THEN i + 1
  ELSE sentence_boundary_from(text, i - 1)

find_sentence_boundary(text) == sentence_boundary_from(text, Len(text) - 1)

RECURSIVE clause_boundary_from(_, _)
clause_boundary_from(text, i) ==
  IF i < 0 THEN 0
  ELSE IF /\ text[i + 1] \in CLAUSE_ENDINGS
          /\ (i + 1 = Len(text) \/ text[i + 2] = " ")
       THEN i + 1
  ELSE clause_boundary_from(text, i - 1)

find_clause_boundary(text) == clause_boundary_from(text, Len(text) - 1)

RECURSIVE rfind_from(_, _)
rfind_from(text, i) ==
  IF i < 0 THEN -1
  ELSE IF text[i + 1] = " " THEN i
  ELSE rfind_from(text, i - 1)

rfind_space(text, end) ==
  rfind_from(text, (IF end < Len(text) THEN end ELSE Len(text)) - 1)

\* the extraction, were it to leave the boundary character out of the unit
extract_dropping_boundary(s, at, rule) ==
  [s |-> [s EXCEPT !.buffer = lstrip(From(s.buffer, at))],
   none |-> FALSE, unit |-> strip(Upto(s.buffer, at - 1)), rule |-> rule,
   at |-> at]
\* the extraction every rule of add_token ends with: the unit returned and
\* the instance left
extract(s, at, rule) ==
  [s |-> [s EXCEPT !.buffer = lstrip(From(s.buffer, at))],
   none |-> FALSE, unit |-> strip(Upto(s.buffer, at)), rule |-> rule,
   at |-> at]

nothing(s) == [s |-> s, none |-> TRUE, unit |-> <<>>, rule |-> "none", at |-> 0]

\* add_token from its third rule on: the buffer is over max_buffer_length
force_split(s, last_space) ==
  IF Len(s.buffer) > s.max_buffer_length /\ last_space > s.min_sentence_length
  THEN extract(s, last_space, "force")
  ELSE nothing(s)

\* the second rule of add_token, were it to accept a boundary at any offset
clause_split_at_any_offset(s, clause_boundary) ==
  IF Len(s.buffer) >= s.min_clause_length /\ clause_boundary # 0
  THEN extract(s, clause_boundary, "clause")
  ELSE force_split(s, rfind_space(s.buffer, s.max_buffer_length))
\* add_token from its second rule on
clause_split(s, clause_boundary) ==
  IF /\ Len(s.buffer) >= s.min_clause_length
     /\ clause_boundary # 0
     /\ clause_boundary >= s.min_clause_length
  THEN extract(s, clause_boundary, "clause")
  ELSE force_split(s, rfind_space(s.buffer, s.max_buffer_length))

\* the first rule of add_token, were it to accept a boundary at any offset
sentence_split_at_any_offset(s, boundary) ==
  IF boundary # 0
  THEN extract(s, boundary, "sentence")
  ELSE clause_split(s, find_clause_boundary(s.buffer))
\* add_token once the token is in the buffer
sentence_split(s, boundary) ==
  IF boundary # 0 /\ boundary >= s.min_sentence_length
  THEN extract(s, boundary, "sentence")
  ELSE clause_split(s, find_clause_boundary(s.buffer))

add_token_buffered(s) == sentence_split(s, find_sentence_boundary(s.buffer))

\* add_token, were the token to replace the buffer
add_token_replacing(s, token) == add_token_buffered([s EXCEPT !.buffer = token])
\* StreamingSentencizer.add_token
add_token(s, token) == add_token_buffered([s EXCEPT !.buffer = @ \o token])

\* StreamingSentencizer.flush
flush(s) ==
  IF strip(s.buffer) # <<>>
  THEN [s |-> [s EXCEPT !.buffer = <<>>], none |-> FALSE,
        unit |-> strip(s.buffer), rule |-> "flush", at |-> Len(s.buffer)]
  ELSE nothing(s)

\* reset, were it to clear the buffer only when flush would return nothing
reset_if_blank(s) == [s EXCEPT !.buffer = IF strip(@) = <<>> THEN <<>> ELSE @]
\* StreamingSentencizer.reset
reset(s) == [s EXCEPT !.buffer = <<>>]

(***************************************************************************)
(* markdown_filter.TTSMarkdownFilter.  The filter's state is a record      *)
(* [in_code_block, in_mermaid, code_block_announced, pending_backticks].   *)
(***************************************************************************)
NewFilter ==
  [in_code_block |-> FALSE, in_mermaid |-> FALSE,
   code_block_announced |-> FALSE, pending_backticks |-> <<>>]

DiagramAnnouncement ==
  <<"H","e","r","e","'","s"," ","a"," ","d","i","a","g","r","a","m",".">>

SnippetAnnouncement ==
  <<"H","e","r","e","'","s"," ","a"," ","c","o","d","e"," ",
    "s","n","i","p","p","e","t",".">>

Mermaid == <<"m","e","r","m","a","i","d">>

\* the number of backticks t ends with
RECURSIVE TrailingBackticks(_)
TrailingBackticks(t) ==
  IF t # <<>> /\ t[Len(t)] = Backtick
  THEN 1 + TrailingBackticks(SubSeq(t, 1, Len(t) - 1))
  ELSE 0

\* the start of the first fence (three backticks) of t at or after index i,
\* 0 if there is none
RECURSIVE FindFence(_, _)
FindFence(t, i) ==
  IF i + 2 > Len(t) THEN 0
  ELSE IF t[i] = Backtick /\ t[i + 1] = Backtick /\ t[i + 2] = Backtick THEN i
  ELSE FindFence(t, i + 1)

\* the opening fence, were it to announce the block without recording it
fence_open_unrecorded(t, p, e, language, before_text, was_in_code_block, st) ==
  [st EXCEPT
     !.parts = IF ~was_in_code_block /\ before_text # <<>>
               THEN Append(@, before_text) ELSE @,
     !.in_code_block = TRUE,
     !.in_mermaid = (language = Mermaid),
     !.announcement =
         IF ~st.code_block_announced
         THEN (IF language = Mermaid THEN DiagramAnnouncement
                                     ELSE SnippetAnnouncement)
         ELSE @,
     !.found_any_fence = TRUE,
     !.last = e]
\* One iteration of the for loop of _handle_code_blocks: the fence at p, whose
\* match ends before index e and names the language.  st holds the flags of
\* the filter and the locals of the loop; last is the index of the first
\* character after the previous fence (last_end + 1).
fence_open(t, p, e, language, before_text, was_in_code_block, st) ==
  [st EXCEPT
     !.parts = IF ~was_in_code_block /\ before_text # <<>>
               THEN Append(@, before_text) ELSE @,
     !.in_code_block = TRUE,
     !.in_mermaid = (language = Mermaid),
     !.announcement =
         IF ~st.code_block_announced
         THEN (IF language = Mermaid THEN DiagramAnnouncement
                                     ELSE SnippetAnnouncement)
         ELSE @,
     !.code_block_announced = TRUE,
     !.found_any_fence = TRUE,
     !.last = e]

\* the closing fence, were it to leave the mermaid flag as it is
fence_close_in_mermaid(e, st) ==
  [st EXCEPT
     !.in_code_block = FALSE,
     !.code_block_announced = FALSE,
     !.found_any_fence = TRUE,
     !.last = e]
fence_close(e, st) ==
  [st EXCEPT
     !.in_code_block = FALSE,
     !.in_mermaid = FALSE,
     !.code_block_announced = FALSE,
     !.found_any_fence = TRUE,
     !.last = e]

\* an iteration of the loop, were the closing fence to keep the text before it
fence_step_capturing(t, p, e, was_in_code_block, st) ==
  IF ~st.in_code_block
  THEN fence_open(t, p, e, lower(SubSeq(t, p + 3, e - 1)),
                  strip(SubSeq(t, st.last, p - 1)), was_in_code_block, st)
  ELSE [fence_close(e, st) EXCEPT
          !.parts = Append(@, strip(SubSeq(t, st.last, p - 1)))]
fence_step(t, p, e, was_in_code_block, st) ==
  IF ~st.in_code_block
  THEN fence_open(t, p, e, lower(SubSeq(t, p + 3, e - 1)),
                  strip(SubSeq(t, st.last, p - 1)), was_in_code_block, st)
  ELSE fence_close(e, st)

\* The for loop over the matches of the fence pattern (three backticks and
\* the word characters after them) that start at or after index i; p is the
\* start of the first of them, 0 if there is none.
RECURSIVE fence_loop(_, _, _, _)
fence_loop(t, p, was_in_code_block, st) ==
  IF p = 0 THEN st
  ELSE fence_loop(t, FindFence(t, RunEnd(t, p + 3, WordChars)), was_in_code_block,
                  fence_step(t, p, RunEnd(t, p + 3, WordChars), was_in_code_block, st))

\* the end of _handle_code_blocks, after the loop: [fs |-> the filter
\* afterwards, none |-> the call returned None, text |-> the text it returned
\* otherwise]
code_blocks_result(was_in_code_block, st, parts, text, after) ==
  IF (was_in_code_block /\ ~st.found_any_fence)
     \/ (was_in_code_block /\ st.found_any_fence /\ parts = <<>>
           /\ st.announcement = <<>>)
  THEN [fs |-> after, none |-> TRUE, text |-> <<>>]
  ELSE IF st.announcement # <<>> /\ parts = <<>>
  THEN [fs |-> after, none |-> FALSE, text |-> st.announcement]
  ELSE IF parts # <<>>
  THEN [fs |-> after, none |-> FALSE,
        text |-> IF st.announcement # <<>>
                 THEN st.announcement \o <<" ">> \o join(parts)
                 ELSE join(parts)]
  ELSE IF st.in_code_block THEN [fs |-> after, none |-> TRUE, text |-> <<>>]
  ELSE [fs |-> after, none |-> FALSE, text |-> text]

\* the end of the loop, were the text after the last fence not to be kept
without_remaining(st, text, remaining) == st.parts
\* the text after the last fence is kept when the block is closed
with_remaining(st, text, remaining) ==
  IF st.last <= Len(text) /\ remaining # <<>> /\ ~st.in_code_block
  THEN Append(st.parts, remaining) ELSE st.parts

code_blocks_after_loop(was_in_code_block, st, text, pending) ==
  code_blocks_result(was_in_code_block, st,
    with_remaining(st, text, strip(SubSeq(text, st.last, Len(text)))), text,
    [in_code_block |-> st.in_code_block, in_mermaid |-> st.in_mermaid,
     code_block_announced |-> st.code_block_announced,
     pending_backticks |-> pending])

\* _handle_code_blocks on the text without its trailing one or two backticks,
\* which are held in pending
code_blocks_from(fs, text, pending) ==
  code_blocks_after_loop(fs.in_code_block,
    fence_loop(text, FindFence(text, 1), fs.in_code_block,
      [in_code_block |-> fs.in_code_block, in_mermaid |-> fs.in_mermaid,
       code_block_announced |-> fs.code_block_announced,
       parts |-> <<>>, announcement |-> <<>>,
       found_any_fence |-> FALSE, last |-> 1]),
    text, pending)

\* one or two backticks end the text
held(trailing) == trailing > 0 /\ trailing < 3

\* _handle_code_blocks, were the backticks that end the text not held
code_blocks_trailing_dropped(fs, text, trailing) ==
  IF held(trailing)
  THEN code_blocks_from(fs, SubSeq(text, 1, Len(text) - trailing), <<>>)
  ELSE code_blocks_from(fs, text, fs.pending_backticks)
code_blocks_trailing(fs, text, trailing) ==
  IF held(trailing)
  THEN code_blocks_from(fs, SubSeq(text, 1, Len(text) - trailing),
                        SubSeq(text, Len(text) - trailing + 1, Len(text)))
  ELSE code_blocks_from(fs, text, fs.pending_backticks)

\* _handle_code_blocks
handle_code_blocks(fs, text) ==
  code_blocks_trailing(fs, text, TrailingBackticks(text))

\* The inline-code substitution of _filter_inline_markdown, from index i: a
\* single backtick not beside another, a run of other characters and such a
\* backtick again lose the two backticks.
inline_code_opens(t, i, q) ==
  /\ t[i] = Backtick
  /\ (i = 1 \/ t[i - 1] # Backtick)
  /\ q > i + 1
  /\ q <= Len(t)
  /\ (q = Len(t) \/ t[q + 1] # Backtick)

\* q is the end of the run of characters other than the backtick after i
RECURSIVE sub_inline_code(_, _)
inline_code_at(t, i, q) ==
  IF inline_code_opens(t, i, q)
  THEN SubSeq(t, i + 1, q - 1) \o sub_inline_code(t, q + 1)
  ELSE <<t[i]>> \o sub_inline_code(t, i + 1)

sub_inline_code(t, i) ==
  IF i > Len(t) THEN <<>>
  ELSE inline_code_at(t, i, RunEnd(t, i + 1, {t[k] : k \in DOMAIN t} \ {Backtick}))

\* every run of whitespace becomes one space, from index i
RECURSIVE sub_spaces(_, _)
sub_spaces(t, i) ==
  IF i > Len(t) THEN <<>>
  ELSE IF IsSpace(t[i])
       THEN <<" ">> \o sub_spaces(t, RunEnd(t, i, {" ", "\n", "\t"}))
       ELSE <<t[i]>> \o sub_spaces(t, i + 1)

\* _filter_inline_markdown, were it to leave the whitespace as it is
filter_inline_markdown_unspaced(text) == strip(sub_inline_code(text, 1))
\* _filter_inline_markdown on the texts of the model, whose characters are
\* letters, ".", "'", ":", "(", ")", "1", whitespace and the backtick, with
\* no digit before a dot: of its substitutions only the inline-code one and
\* the whitespace one have anything to match.
filter_inline_markdown(text) == strip(sub_spaces(sub_inline_code(text, 1), 1))

\* filter_for_tts: [fs |-> the filter afterwards, text |-> the text returned,
\* <<>> for None]
filter_result(r) ==
  IF r.none \/ r.fs.in_code_block THEN [fs |-> r.fs, text |-> <<>>]
  ELSE [fs |-> r.fs, text |-> strip(filter_inline_markdown(r.text))]

filter_for_tts(fs, text) ==
  IF text = <<>> THEN [fs |-> fs, text |-> <<>>]
  ELSE filter_result(handle_code_blocks([fs EXCEPT !.pending_backticks = <<>>],
                                        fs.pending_backticks \o text))

(***************************************************************************)
(* tts.TextToSpeech, the one instance get_tts() shares among the sessions: *)
(* [voice, speed, loaded].                                                 *)
(***************************************************************************)
VOICES ==
  {"af_heart", "af_bella", "af_sarah", "af_nicole", "af_sky", "am_adam",
   "am_michael", "bf_emma", "bf_isabella", "bm_george", "bm_lewis"}

\* 'a' if voice.startswith('a') else 'b'
lang_code(voice) ==
  IF voice \in {"af_heart", "af_bella", "af_sarah", "af_nicole", "af_sky",
                "am_adam", "am_michael"}
  THEN "a" ELSE "b"

\* config.TTSSettings
DefaultVoice == "af_heart"
DefaultSpeed == 110

NewTts == [voice |-> DefaultVoice, speed |-> DefaultSpeed, loaded |-> FALSE]

\* _ensure_loaded: the import of kokoro succeeds when the package is
\* installed (importable) and raises ImportError otherwise.
ensure_loaded(t, importable) ==
  IF t.loaded THEN [raised |-> "", tts |-> t]
  ELSE IF importable THEN [raised |-> "", tts |-> [t EXCEPT !.loaded = TRUE]]
  ELSE [raised |-> "ImportError", tts |-> t]

\* A faulty set_voice that takes any name: the catalog is not consulted.
tts_set_voice_unchecked(t, voice, importable) ==
  LET t1 == [t EXCEPT !.voice = voice] IN
  IF lang_code(t.voice) # lang_code(voice) /\ t.loaded
  THEN ensure_loaded([t1 EXCEPT !.loaded = FALSE], importable)
  ELSE [raised |-> "", tts |-> t1]

\* set_voice: [raised |-> the exception's name or "", tts |-> the engine
\* afterwards]
tts_set_voice(t, voice, importable) ==
  IF voice \notin VOICES THEN [raised |-> "ValueError", tts |-> t]
  ELSE LET t1 == [t EXCEPT !.voice = voice] IN
       IF lang_code(t.voice) # lang_code(voice) /\ t.loaded
       THEN ensure_loaded([t1 EXCEPT !.loaded = FALSE], importable)
       ELSE [raised |-> "", tts |-> t1]

Max(a, b) == IF a >= b THEN a ELSE b
Min(a, b) == IF a <= b THEN a ELSE b

\* set_speed: max(0.5, min(2.0, speed))
tts_set_speed(t, speed) == [t EXCEPT !.speed = Max(50, Min(200, speed))]

(***************************************************************************)
(* wakeword.WakeWordDetector, the one instance get_detector() shares:      *)
(* [enabled, state], state one of listening, active, processing, speaking. *)
(***************************************************************************)
NewDetector == [enabled |-> FALSE, state |-> "listening"]

ww_set_speaking(w, speaking) ==
  IF speaking THEN [w EXCEPT !.state = "speaking"]
  ELSE IF w.state = "speaking" THEN [w EXCEPT !.state = "listening"] ELSE w

ww_set_listening(w) == [w EXCEPT !.state = "listening"]

ww_set_processing(w, processing) ==
  IF processing THEN [w EXCEPT !.state = "processing"]
  ELSE IF w.state = "processing" THEN [w EXCEPT !.state = "listening"] ELSE w

\* update_settings(enabled=...), the argument written "True", "False" or
\* "None": None leaves the setting alone
ww_update_settings(w, enabled) ==
  IF enabled = "None" THEN w ELSE [w EXCEPT !.enabled = (enabled = "True")]

ww_get_settings(w) == [enabled |-> w.enabled]

\* process(chunk): what the detector may report, and its state afterwards
ww_may_detect(w) == IF w.state = "listening" THEN BOOLEAN ELSE {FALSE}
ww_process(w, detected) == IF detected THEN [w EXCEPT !.state = "active"] ELSE w

(***************************************************************************)
(* The frames a peer sends.                                                *)
(***************************************************************************)
TextEmpty == <<>>
TextBlank == <<" ">>
TextOne   == <<"a", ".">>
TextThree == <<"a", ".", " ", "b", ".", " ", "c", ".">>
TextFence == <<Backtick, Backtick, Backtick, "a", ".", " ", "b">>

Texts == {TextEmpty, TextBlank, TextOne, TextThree, TextFence}
MessageIds == {"m1", "m2"}

\* a text frame holding the JSON object m
Msg(m) == [frame |-> "text", json |-> "object", msg |-> m]

SynthesizeFrames ==
  {Msg([type |-> "synthesize", text |-> t, text_is_str |-> TRUE,
        messageId |-> m, isFinal |-> f]) :
     t \in Texts, m \in MessageIds, f \in BOOLEAN}
  \cup
  \* "text": null
  {Msg([type |-> "synthesize", text |-> <<>>, text_is_str |-> FALSE,
        messageId |-> "m1", isFinal |-> f]) : f \in BOOLEAN}

ControlFrames ==
  {Msg([type |-> "set_tts_enabled", enabled |-> b]) : b \in BOOLEAN}
  \cup {Msg([type |-> "set_tts_muted", muted |-> b]) : b \in BOOLEAN}
  \cup {Msg([type |-> "set_voice", voice |-> v]) :
          v \in {"af_bella", "bm_george", "nova", ""}}
  \cup {Msg([type |-> "set_speed", speed |-> x]) : x \in {25, 300}}
  \cup {Msg([type |-> "set_wakeword_settings", enabled_arg |-> e]) :
          e \in {"True", "False", "None"}}
  \cup {Msg([type |-> t]) :
          t \in {"get_settings", "get_voices", "get_wakeword_models",
                 "stop_speaking", "set_listening"}}
  \cup {Msg([type |-> "set_processing", processing |-> b]) : b \in BOOLEAN}

RecognizedTypes ==
  {"synthesize", "set_tts_enabled", "set_tts_muted", "set_voice", "set_speed",
   "set_wakeword_settings", "get_settings", "get_voices", "get_wakeword_models",
   "stop_speaking", "set_processing", "set_listening"}

\* an unrecognized type tag, and no type tag at all (message.get("type") is None)
OtherFrames == {Msg([type |-> "ping"]), Msg([type |-> "None"])}

\* text that is not JSON, and JSON that is not an object
MalformedFrames ==
  {[frame |-> "text", json |-> "invalid"], [frame |-> "text", json |-> "array"]}

\* binary frames: an odd number of bytes is no sequence of 16-bit samples
BinaryFrames == {[frame |-> "bytes", odd |-> b] : b \in BOOLEAN}

Frames ==
  SynthesizeFrames \cup ControlFrames \cup OtherFrames \cup MalformedFrames
    \cup BinaryFrames

Disconnect == [frame |-> "disconnect"]

IsMsg(f, type) == f.frame = "text" /\ f.json = "object" /\ f.msg.type = type

\* What tells the frames in flight apart: the type tag of a message, or what
\* the frame is instead of a message.
Kind(f) ==
  IF f.frame # "text" THEN f.frame
  ELSE IF f.json # "object" THEN f.json
  ELSE f.msg.type

Kinds == {Kind(f) : f \in Frames}

(***************************************************************************)
(* State.                                                                  *)
(***************************************************************************)
VARIABLES
  importable, \* whether the kokoro package can be imported in this process
  conn,       \* conn[c]: "new", "open" (accepted) or "closed" (torn down)
  sessions,   \* the keys of the sessions dict
  sess,       \* sess[c]: the VoiceSession of connection c
  tts,        \* the shared TextToSpeech
  ww,         \* the shared WakeWordDetector
  inbox,      \* inbox[c]: the frames sent on c that the loop has not read yet,
              \* each by its kind: what a frame holds is drawn when it is read
  sent,       \* the number of frames the peers have sent
  pc,         \* pc[c]: the await at which the task of c is suspended
  cur,        \* cur[c]: the frame being handled, or the last one handled
  call,       \* call[c]: the locals of handle_synthesize
  log,        \* log[c]: the events sent and the engine calls made by the
              \* handling of cur[c], in order
  stopAfter,  \* stopAfter[c]: the unit of the last tts_audio event sent when
              \* the peer issued stop_speaking during the synthesis of cur[c]
              \* (0: none sent yet), -1 when it issued none
  audioOpen,  \* audioOpen[c]: the message ids of the syntheses on c that have
              \* sent a tts_audio event and whose cleanup has not run
  sz,         \* a StreamingSentencizer driven on its own, with the text it
              \* is fed and the units it has returned
  mf,         \* a TTSMarkdownFilter driven on its own, with the response it
              \* is fed and the results it has returned
  prior       \* prior[c]: the current_message_id of the session of c when
              \* cur[c] was read

vars ==
  <<importable, conn, sessions, sess, tts, ww, inbox, sent, pc, cur, call,
    log, stopAfter, audioOpen, sz, mf, prior>>

(***************************************************************************)
(* A StreamingSentencizer driven on its own.  Its caller constructs it     *)
(* with a configuration, feeds it a text cut into tokens at any places,    *)
(* and may call flush and reset at any time; after a reset it feeds the    *)
(* text again.  A stream is what was fed since the last flush or reset.  *)
(***************************************************************************)
\* The longest token fed in one call.
MaxTokenLen == 30

\* The calls of reset in one run.
MaxResets == 2

TextDoctor ==
  <<"D","r","."," ","S","m","i","t","h"," ","a","r","r","i","v","e","d",".">>

TextDecimal ==
  <<"t","h","e"," ","v","a","l","u","e"," ","i","s"," ","3",".","1","4"," ",
    "e","x","a","c","t","l","y",".">>

TextShort ==
  <<"H","i","."," ","H","e","l","l","o"," ","t","h","e","r","e"," ","f","r",
    "i","e","n","d",".">>

TextWords ==
  <<"a","a"," ","b","b"," ","c","c"," ","d","d"," ","e","e"," ","f","f"," ",
    "g","g"," ","h","h"," ","i","i"," ","j","j">>

TextSpaces ==
  <<" "," "," "," "," "," "," "," "," "," "," "," "," "," ">>

TextClauses ==
  <<"w","e","l","l",","," ","t","h","i","s"," ","i","s"," ","i","t",";"," ",
    "y","e","s">>

TextAbbreviations ==
  <<"s","e","e"," ","e",".","g","."," ","t","h","e"," ","a",".","m","."," ",
    "s","l","o","t",".">>

TextLongWord ==
  <<"a","a","a"," ","b","b","b","b","b","b","b","b","b","b","b","b","b"," ",
    "c","c">>

StreamTexts ==
  {TextDoctor, TextDecimal, TextShort, TextWords, TextSpaces, TextClauses,
   TextAbbreviations, TextLongWord}

\* the arguments of the constructor: its defaults, and a small configuration
Configs ==
  {[min_sentence_length |-> 10, min_clause_length |-> 30,
    max_buffer_length |-> 500],
   [min_sentence_length |-> 3, min_clause_length |-> 6,
    max_buffer_length |-> 12]}

Construct(cfg) ==
  NewSentencizer(cfg.min_sentence_length, cfg.min_clause_length,
                 cfg.max_buffer_length)

\* what the caller saw of its last call; buffered is the buffer the rules of
\* add_token ran on (the buffer before the call, for flush and reset)
NoResult ==
  [op |-> "new", buffered |-> <<>>, none |-> TRUE, unit |-> <<>>,
   rule |-> "none", at |-> 0, fresh_none |-> TRUE, fresh_unit |-> <<>>]

Result(op, buffered, r, f) ==
  [op |-> op, buffered |-> buffered, none |-> r.none, unit |-> r.unit,
   rule |-> r.rule, at |-> r.at, fresh_none |-> f.none, fresh_unit |-> f.unit]

\* s: the instance; fresh: an instance constructed when s was last reset and
\* given the same calls since; text, pos: the text being fed and how much of
\* it was fed; fed, units: the tokens and the units of the stream, each
\* concatenated in order
Stream(cfg, text) ==
  [s |-> Construct(cfg), fresh |-> Construct(cfg), text |-> text, pos |-> 0,
   fed |-> <<>>, units |-> <<>>, resets |-> 0, last |-> NoResult]

NoStream == Stream(CHOOSE cfg \in Configs : cfg.max_buffer_length = 500, <<>>)

Returned(units, r) == IF r.none THEN units ELSE Append(units, r.unit)

\* the service, which a call on the sentencizer or the filter leaves alone
service ==
  <<importable, conn, sessions, sess, tts, ww, inbox, sent, pc, cur, call,
    log, stopAfter, audioOpen, prior>>

call_add_token ==
  \E n \in 1..MaxTokenLen :
    /\ sz.pos + n <= Len(sz.text)
    /\ \E token \in {SubSeq(sz.text, sz.pos + 1, sz.pos + n)} :
       \E r \in {add_token(sz.s, token)} :
       \E f \in {add_token(sz.fresh, token)} :
         sz' = [sz EXCEPT
                  !.s = r.s,
                  !.fresh = f.s,
                  !.pos = @ + n,
                  !.fed = IF sz.last.op = "flush" THEN token ELSE @ \o token,
                  !.units = Returned(IF sz.last.op = "flush" THEN <<>> ELSE @, r),
                  !.last = Result("add_token", sz.s.buffer \o token, r, f)]
    /\ UNCHANGED <<service, mf>>

call_flush ==
  /\ \E r \in {flush(sz.s)} :
     \E f \in {flush(sz.fresh)} :
       sz' = [sz EXCEPT
                !.s = r.s,
                !.fresh = f.s,
                !.units = Returned(@, r),
                !.last = Result("flush", sz.s.buffer, r, f)]
  /\ UNCHANGED <<service, mf>>

call_reset ==
  /\ sz.resets < MaxResets
  /\ sz' = [sz EXCEPT
            !.s = reset(@),
            !.fresh = Construct(@),
            !.pos = 0,
            !.fed = <<>>,
            !.units = <<>>,
            !.resets = @ + 1,
            !.last = [NoResult EXCEPT !.op = "reset",
                                      !.buffered = sz.s.buffer]]
  /\ UNCHANGED <<service, mf>>

(***************************************************************************)
(* A TTSMarkdownFilter driven on its own.  Its caller passes it a response *)
(* cut into chunks at any places, one filter_for_tts call a chunk, and may *)
(* call reset at any time, after which it passes the response again.       *)
(***************************************************************************)
ResponseSnippet ==
  <<"E","x","p","l","a","n","a","t","i","o","n",":"," ",Backtick,Backtick,
    Backtick,"p","y","t","h","o","n","p","r","i","n","t","(","1",")","\n",
    Backtick,Backtick,Backtick," ","d","o","n","e">>

ResponseDiagram ==
  <<"L","o","o","k",":"," ",Backtick,Backtick,Backtick,"m","e","r","m","a",
    "i","d","\n","g","r","a","p","h","\n",Backtick,Backtick,Backtick," ","o",
    "k">>

ResponseFence ==
  <<Backtick,Backtick,Backtick,"p","y","t","h","o","n">>

ResponsePlain ==
  <<"I","t"," ","w","o","r","k","s","."," ","D","o","n","e">>

ResponseInline ==
  <<"U","s","e"," ",Backtick,"x",Backtick," ","n","o","w",".","\n","D","o","n","e">>

Responses ==
  {ResponseSnippet, ResponseDiagram, ResponseFence, ResponsePlain,
   ResponseInline}

\* what the caller saw of its last call: the chunk passed, the filter before
\* the call, the text returned, <<>> for None, and what a new filter returns
\* for that text
NoFiltered ==
  [op |-> "new", chunk |-> <<>>, before |-> NewFilter, text |-> <<>>,
   again |-> <<>>]

\* fs: the filter; text, pos: the response being passed and how much of it
\* was passed
FilterRun(text) == [fs |-> NewFilter, text |-> text, pos |-> 0, last |-> NoFiltered]

call_filter_for_tts ==
  \E n \in 1..Len(mf.text) :
    /\ mf.pos + n <= Len(mf.text)
    /\ \E chunk \in {SubSeq(mf.text, mf.pos + 1, mf.pos + n)} :
       \E r \in {filter_for_tts(mf.fs, chunk)} :
         mf' = [mf EXCEPT
                  !.fs = r.fs,
                  !.pos = @ + n,
                  !.last = [op |-> "filter_for_tts", chunk |-> chunk,
                            before |-> mf.fs, text |-> r.text,
                            again |-> filter_for_tts(NewFilter, r.text).text]]
    /\ UNCHANGED <<service, sz>>

\* TTSMarkdownFilter.reset
call_filter_reset ==
  /\ mf.last.op # "reset"
  /\ mf' = [mf EXCEPT
              !.fs = NewFilter,
              !.pos = 0,
              !.last = [NoFiltered EXCEPT !.op = "reset", !.before = mf.fs]]
  /\ UNCHANGED <<service, sz>>

\* VoiceSession.__init__
NewSession ==
  [tts_enabled |-> TRUE, tts_muted |-> FALSE, speaking |-> FALSE,
   current_message_id |-> "None", markdown_filter |-> NewFilter,
   sentencizer |-> <<>>]

NoCall == [units |-> <<>>, idx |-> 0, filtered |-> <<>>, failed |-> 0]

NoFrame == [frame |-> "none"]

\* nothing has connected and nothing was sent
Idle ==
  /\ conn = [c \in Conns |-> "new"]
  /\ sessions = {}
  /\ sess = [c \in Conns |-> NewSession]
  /\ tts = NewTts
  /\ ww = NewDetector
  /\ inbox = [c \in Conns |-> <<>>]
  /\ sent = 0
  /\ pc = [c \in Conns |-> "recv"]
  /\ cur = [c \in Conns |-> NoFrame]
  /\ call = [c \in Conns |-> NoCall]
  /\ log = [c \in Conns |-> <<>>]
  /\ stopAfter = [c \in Conns |-> -1]
  /\ audioOpen = [c \in Conns |-> {}]
  /\ prior = [c \in Conns |-> "None"]

Init ==
  /\ importable \in BOOLEAN
  /\ Idle
  /\ sz = NoStream
  /\ mf = FilterRun(<<>>)

(***************************************************************************)
(* Log entries: an event passed to send_json, or a call of an engine.      *)
(***************************************************************************)
Ev(type) == [ev |-> type]
EvMsg(type, message_id) == [ev |-> type, messageId |-> message_id]
EvAudio(message_id, unit, text) ==
  [ev |-> "tts_audio", messageId |-> message_id, unit |-> unit, audio |-> text]
EvError(error) == [ev |-> "error", error |-> error]
Call(name) == [call |-> name]
CallArg(name, arg) == [call |-> name, arg |-> arg]

IsEvent(e) == "ev" \in DOMAIN e
IsCall(e) == "call" \in DOMAIN e
Events(l) == SelectSeq(l, IsEvent)
Calls(l) == SelectSeq(l, IsCall)
IsAudio(e) == IsEvent(e) /\ e.ev = "tts_audio"
Audio(l) == SelectSeq(l, IsAudio)
OfType(l, type) == SelectSeq(l, LAMBDA e : IsEvent(e) /\ e.ev = type)

\* the unit of the last tts_audio event of l, 0 if it has none
LastAudioUnit(l) == IF Audio(l) = <<>> THEN 0 ELSE Audio(l)[Len(Audio(l))].unit

InSynthesis(c) == pc[c] \in {"started", "synth", "paced", "except"}

(***************************************************************************)
(* websocket_endpoint.                                                     *)
(***************************************************************************)
\* accept, the session registered, the connected event sent
Accept(c) ==
  /\ conn[c] = "new"
  /\ conn' = [conn EXCEPT ![c] = "open"]
  /\ sessions' = sessions \cup {c}
  /\ sess' = [sess EXCEPT ![c] = NewSession]
  /\ log' = [log EXCEPT ![c] = <<[ev |-> "connected", sessionId |-> c]>>]
  /\ pc' = [pc EXCEPT ![c] = "recv"]
  /\ UNCHANGED <<prior, sz, mf, importable, tts, ww, inbox, sent, cur, call, stopAfter, audioOpen>>

\* The peer sends a frame.
Send(c) ==
  /\ conn[c] = "open"
  /\ sent < MaxFrames
  /\ Kind(Disconnect) \notin {inbox[c][k] : k \in DOMAIN inbox[c]}
  /\ \E kind \in Kinds :
       /\ inbox' = [inbox EXCEPT ![c] = Append(@, kind)]
       /\ stopAfter' =
            IF kind = "stop_speaking" /\ InSynthesis(c)
            THEN [stopAfter EXCEPT ![c] = LastAudioUnit(log[c])]
            ELSE stopAfter
  /\ sent' = sent + 1
  /\ UNCHANGED <<prior, sz, mf, importable, conn, sessions, sess, tts, ww, pc, cur, call, log,
                 audioOpen>>

\* The peer closes the connection.
PeerCloses(c) ==
  /\ conn[c] = "open"
  /\ Kind(Disconnect) \notin {inbox[c][k] : k \in DOMAIN inbox[c]}
  /\ sent < MaxFrames
  /\ sent' = sent + 1
  /\ inbox' = [inbox EXCEPT ![c] = Append(@, Kind(Disconnect))]
  /\ UNCHANGED <<prior, sz, mf, importable, conn, sessions, sess, tts, ww, pc, cur, call,
                 log, stopAfter, audioOpen>>

\* A faulty loop that does not await the handler: a synthesize frame is read
\* while the synthesis of the frame before it sleeps between two units.
LoopReady_while_paced(c) ==
  \/ pc[c] = "recv"
  \/ pc[c] = "paced" /\ inbox[c] # <<>> /\ Head(inbox[c]) = "synthesize"

\* await session.handle_message(data): the loop reads the next frame only
\* when the handling of the last one has returned.
LoopReady(c) == pc[c] = "recv"

Ready(c) == conn[c] = "open" /\ LoopReady(c) /\ inbox[c] # <<>>

\* message = await websocket.receive(): what the frame read next may hold
Arrived(c) == {f \in Frames \cup {Disconnect} : Kind(f) = Head(inbox[c])}

\* The loop read frame f and the task ran to its next await: the session is
\* s, the engines t and w, the handling has logged l, and the task waits at p.
Handled(c, f, s, t, w, l, p) ==
  /\ inbox' = [inbox EXCEPT ![c] = Tail(@)]
  /\ cur' = [cur EXCEPT ![c] = f]
  /\ sess' = [sess EXCEPT ![c] = s]
  /\ tts' = t
  /\ ww' = w
  /\ log' = [log EXCEPT ![c] = l]
  /\ pc' = [pc EXCEPT ![c] = p]
  /\ call' = [call EXCEPT ![c] = NoCall]
  /\ stopAfter' = [stopAfter EXCEPT ![c] = -1]
  /\ prior' = [prior EXCEPT ![c] = sess[c].current_message_id]
  /\ UNCHANGED <<sz, mf, importable, conn, sessions, sent, audioOpen>>

\* A faulty teardown that leaves the session in the dict.
Unregister_nothing(c) == sessions

\* del sessions[session_id]
Unregister(c) == sessions \ {c}

\* The loop read frame f and left the while loop, by WebSocketDisconnect or by
\* another exception: the finally clause removes the session.
TornDown(c, f, t) ==
  /\ inbox' = [inbox EXCEPT ![c] = Tail(@)]
  /\ cur' = [cur EXCEPT ![c] = f]
  /\ conn' = [conn EXCEPT ![c] = "closed"]
  /\ sessions' = Unregister(c)
  /\ tts' = t
  /\ log' = [log EXCEPT ![c] = <<>>]
  /\ call' = [call EXCEPT ![c] = NoCall]
  /\ stopAfter' = [stopAfter EXCEPT ![c] = -1]
  /\ prior' = [prior EXCEPT ![c] = sess[c].current_message_id]
  /\ UNCHANGED <<sz, mf, importable, sess, ww, sent, pc, audioOpen>>

\* receive() reports the disconnect
Disconnected(c) ==
  /\ Ready(c)
  /\ Head(inbox[c]) = Kind(Disconnect)
  /\ TornDown(c, Disconnect, tts)

\* json.loads raises JSONDecodeError: caught in the loop, the frame is dropped
InvalidJson(c) ==
  /\ Ready(c)
  /\ \E f \in Arrived(c) :
       /\ f.frame = "text" /\ f.json = "invalid"
       /\ Handled(c, f, sess[c], tts, ww, <<>>, "recv")

\* message.get on a JSON value that is no object raises AttributeError, which
\* only the except clause of the endpoint catches
NotAnObject(c) ==
  /\ Ready(c)
  /\ \E f \in Arrived(c) :
       /\ f.frame = "text" /\ f.json = "array"
       /\ TornDown(c, f, tts)

(***************************************************************************)
(* VoiceSession.handle_message, one action per branch.                     *)
(***************************************************************************)
set_tts_enabled(c) ==
  /\ Ready(c)
  /\ \E f \in Arrived(c) :
       /\ IsMsg(f, "set_tts_enabled")
       /\ Handled(c, f, [sess[c] EXCEPT !.tts_enabled = f.msg.enabled], tts, ww,
                  <<>>, "recv")

\* A faulty branch that keeps the mute flag in one place for all sessions.
set_tts_muted_everywhere(c) ==
  /\ Ready(c)
  /\ \E f \in Arrived(c) :
       /\ IsMsg(f, "set_tts_muted")
       /\ inbox' = [inbox EXCEPT ![c] = Tail(@)]
       /\ cur' = [cur EXCEPT ![c] = f]
       /\ sess' = [d \in Conns |-> [sess[d] EXCEPT !.tts_muted = f.msg.muted]]
       /\ log' = [log EXCEPT ![c] = <<>>]
       /\ call' = [call EXCEPT ![c] = NoCall]
       /\ stopAfter' = [stopAfter EXCEPT ![c] = -1]
       /\ UNCHANGED <<prior, sz, mf, importable, conn, sessions, tts, ww, sent, pc, audioOpen>>

set_tts_muted(c) ==
  /\ Ready(c)
  /\ \E f \in Arrived(c) :
       /\ IsMsg(f, "set_tts_muted")
       /\ Handled(c, f, [sess[c] EXCEPT !.tts_muted = f.msg.muted], tts, ww,
                  <<>>, "recv")

\* A faulty reply that reports the unknown voice under a type of its own.
voice_reply_voice_error(voice, r) ==
  <<[call |-> "tts.set_voice", voice |-> voice],
    IF r.raised = "ValueError" THEN [ev |-> "voice_error", error |-> "Unknown voice"]
    ELSE [ev |-> "voice_changed", voice |-> voice]>>

\* what the set_voice branch logs for the outcome r of tts.set_voice
voice_reply(voice, r) ==
  <<[call |-> "tts.set_voice", voice |-> voice],
    IF r.raised = "ValueError" THEN EvError("Unknown voice")
    ELSE [ev |-> "voice_changed", voice |-> voice]>>

set_voice(c) ==
  /\ Ready(c)
  /\ \E f \in Arrived(c) :
     LET voice == f.msg.voice
         r == tts_set_voice(tts, voice, importable)
     IN  /\ IsMsg(f, "set_voice")
         /\ IF voice = "" THEN Handled(c, f, sess[c], tts, ww, <<>>, "recv")
            ELSE IF r.raised \in {"", "ValueError"}
                 THEN Handled(c, f, sess[c], r.tts, ww, voice_reply(voice, r), "recv")
            ELSE TornDown(c, f, r.tts)

set_speed(c) ==
  /\ Ready(c)
  /\ \E f \in Arrived(c) :
       /\ IsMsg(f, "set_speed")
       /\ Handled(c, f, sess[c], tts_set_speed(tts, f.msg.speed), ww,
                  <<[call |-> "tts.set_speed", speed |-> f.msg.speed]>>, "recv")

WakewordSettingsEvent(w) ==
  [ev |-> "wakeword_settings", wakeword |-> ww_get_settings(w)]

\* update_settings, then preload_model in the executor when enabled is true
set_wakeword_settings(c) ==
  /\ Ready(c)
  /\ \E f \in Arrived(c) :
     LET w == ww_update_settings(ww, f.msg.enabled_arg)
         updated == [call |-> "wakeword.update_settings",
                     enabled_arg |-> f.msg.enabled_arg]
     IN  /\ IsMsg(f, "set_wakeword_settings")
         /\ IF f.msg.enabled_arg = "True"
            THEN Handled(c, f, sess[c], tts, w,
                         <<updated, Call("wakeword.preload_model")>>, "preload")
            ELSE Handled(c, f, sess[c], tts, w,
                         <<updated, Call("wakeword.get_settings"),
                           WakewordSettingsEvent(w)>>, "recv")

\* preload_model has returned: the settings are sent
wakeword_preloaded(c) ==
  /\ pc[c] = "preload"
  /\ log' = [log EXCEPT ![c] = @ \o <<Call("wakeword.get_settings"),
                                      WakewordSettingsEvent(ww)>>]
  /\ pc' = [pc EXCEPT ![c] = "recv"]
  /\ UNCHANGED <<prior, sz, mf, importable, conn, sessions, sess, tts, ww, inbox, sent, cur,
                 call, stopAfter, audioOpen>>

\* A faulty get_settings that reports the voice and the speed of the
\* configuration.
get_settings_configured(c) ==
  /\ Ready(c)
  /\ \E f \in Arrived(c) :
     LET s == sess[c]
     IN  /\ IsMsg(f, "get_settings")
         /\ Handled(c, f, s, tts, ww,
                    <<Call("TextToSpeech.list_voices"), Call("wakeword.get_settings"),
                      [ev |-> "settings",
                       tts |-> [enabled |-> s.tts_enabled, muted |-> s.tts_muted,
                                voice |-> DefaultVoice, speed |-> DefaultSpeed,
                                voices |-> VOICES],
                       wakeword |-> ww_get_settings(ww)]>>, "recv")
get_settings(c) ==
  /\ Ready(c)
  /\ \E f \in Arrived(c) :
     LET s == sess[c]
     IN  /\ IsMsg(f, "get_settings")
         /\ Handled(c, f, s, tts, ww,
                    <<Call("TextToSpeech.list_voices"), Call("wakeword.get_settings"),
                      [ev |-> "settings",
                       tts |-> [enabled |-> s.tts_enabled, muted |-> s.tts_muted,
                                voice |-> tts.voice, speed |-> tts.speed,
                                voices |-> VOICES],
                       wakeword |-> ww_get_settings(ww)]>>, "recv")

get_voices(c) ==
  /\ Ready(c)
  /\ \E f \in Arrived(c) :
       /\ IsMsg(f, "get_voices")
       /\ Handled(c, f, sess[c], tts, ww,
                  <<Call("TextToSpeech.list_voices"),
                    [ev |-> "voices", voices |-> VOICES]>>, "recv")

get_wakeword_models(c) ==
  /\ Ready(c)
  /\ \E f \in Arrived(c) :
       /\ IsMsg(f, "get_wakeword_models")
       /\ Handled(c, f, sess[c], tts, ww,
                  <<Call("WakeWordDetector.get_available_models"),
                    Ev("wakeword_models")>>, "recv")

stop_speaking(c) ==
  /\ Ready(c)
  /\ \E f \in Arrived(c) :
       /\ IsMsg(f, "stop_speaking")
       /\ Handled(c, f, [sess[c] EXCEPT !.speaking = FALSE], tts,
                  ww_set_speaking(ww, FALSE),
                  <<CallArg("wakeword.set_speaking", FALSE)>>, "recv")

set_processing(c) ==
  /\ Ready(c)
  /\ \E f \in Arrived(c) :
       /\ IsMsg(f, "set_processing")
       /\ Handled(c, f, sess[c], tts, ww_set_processing(ww, f.msg.processing),
                  <<CallArg("wakeword.set_processing", f.msg.processing)>>, "recv")

set_listening(c) ==
  /\ Ready(c)
  /\ \E f \in Arrived(c) :
     LET w == ww_set_listening(ww)
     IN  /\ IsMsg(f, "set_listening")
         /\ Handled(c, f, sess[c], tts, w,
                    <<Call("wakeword.set_listening"),
                      [ev |-> "wake_status", state |-> w.state]>>, "recv")

\* A faulty chain with an else branch that answers an unknown type by an
\* error event.
unrecognized_replies(c) ==
  /\ Ready(c)
  /\ \E f \in Arrived(c) :
       /\ f.frame = "text" /\ f.json = "object"
       /\ f.msg.type \notin RecognizedTypes
       /\ Handled(c, f, sess[c], tts, ww, <<EvError("Unknown type")>>, "recv")

\* no branch of the if/elif chain matches
unrecognized(c) ==
  /\ Ready(c)
  /\ \E f \in Arrived(c) :
       /\ f.frame = "text" /\ f.json = "object"
       /\ f.msg.type \notin RecognizedTypes
       /\ Handled(c, f, sess[c], tts, ww, <<>>, "recv")

(***************************************************************************)
(* VoiceSession.handle_audio_chunk.                                        *)
(***************************************************************************)
handle_audio_chunk(c) ==
  /\ Ready(c)
  /\ \E f \in Arrived(c) :
       /\ f.frame = "bytes"
       /\ IF ~ww.enabled THEN Handled(c, f, sess[c], tts, ww, <<>>, "recv")
          \* np.frombuffer raises ValueError
          ELSE IF f.odd THEN TornDown(c, f, tts)
          ELSE \E detected \in ww_may_detect(ww) :
                 Handled(c, f, sess[c], tts, ww_process(ww, detected),
                         <<Call("wakeword.process")>> \o
                           (IF detected
                            THEN <<[ev |-> "wake_status", state |-> "active",
                                    detected |-> TRUE]>>
                            ELSE <<>>),
                         "recv")

(***************************************************************************)
(* VoiceSession.handle_synthesize.  The task is suspended at its awaits:   *)
(* "started" (the send of tts_start), "synth" (synthesize_async), "paced"  *)
(* (the send of tts_audio and the sleep after it), "except" (the send of   *)
(* the error event).                                                       *)
(***************************************************************************)
\* A faulty skip test that forgets the mute flag.
Silenced_if_disabled(s) == ~s.tts_enabled

\* if not self.tts_enabled or self.tts_muted
Silenced(s) == ~s.tts_enabled \/ s.tts_muted

\* A faulty completion that does not test is_final.
completion_always(m) == <<EvMsg("tts_complete", m.messageId)>>

\* if is_final: send tts_complete
completion(m) ==
  IF m.isFinal THEN <<EvMsg("tts_complete", m.messageId)>> ELSE <<>>

\* A faulty loop that passes to the engine whatever the filter returns.
loop_unfiltered(units, i, speaking, r) ==
  [done |-> FALSE, idx |-> i, fs |-> r.fs, text |-> r.text]
\* The iterations of the for loop from unit i that reach no await: the loop
\* stops at the first unit the filter leaves text of (done is false, the
\* text is to be synthesized) or ends (done is true).
RECURSIVE loop(_, _, _, _)
loop_filtered(units, i, speaking, r) ==
  IF r.text = <<>> THEN loop(units, i + 1, speaking, r.fs)
  ELSE [done |-> FALSE, idx |-> i, fs |-> r.fs, text |-> r.text]

loop(units, i, speaking, fs) ==
  IF i > Len(units) \/ ~speaking
  THEN [done |-> TRUE, idx |-> i, fs |-> fs, text |-> <<>>]
  ELSE loop_filtered(units, i, speaking, filter_for_tts(fs, units[i]))

\* The task of c runs from one await of handle_synthesize to the next.
Resume(c, s, t, w, l, p, k, a) ==
  /\ sess' = [sess EXCEPT ![c] = s]
  /\ tts' = t
  /\ ww' = w
  /\ log' = [log EXCEPT ![c] = l]
  /\ pc' = [pc EXCEPT ![c] = p]
  /\ call' = [call EXCEPT ![c] = k]
  /\ audioOpen' = [audioOpen EXCEPT ![c] = a]
  /\ UNCHANGED <<prior, sz, mf, importable, conn, sessions, inbox, sent, cur, stopAfter>>

\* A faulty finally clause that does not return the detector to listening.
cleanup_without_listening(m) ==
  <<CallArg("wakeword.set_speaking", FALSE)>> \o completion(m)

\* the statements of the finally clause, as log entries
cleanup(m) ==
  <<CallArg("wakeword.set_speaking", FALSE), Call("wakeword.set_listening")>>
    \o completion(m)

\* the finally clause; the handler returns to the receive loop
Finally(c, s, t, l, k) ==
  Resume(c, [s EXCEPT !.speaking = FALSE], t,
         ww_set_listening(ww_set_speaking(ww, FALSE)),
         l \o cleanup(cur[c].msg), "recv", k,
         audioOpen[c] \ {cur[c].msg.messageId})

\* the for loop has run to r: the call of the engine, or the finally clause
Iterated(c, s, t, l, k, r) ==
  IF r.done
  THEN Finally(c, [s EXCEPT !.markdown_filter = r.fs], t, l, [k EXCEPT !.idx = r.idx])
  ELSE Resume(c, [s EXCEPT !.markdown_filter = r.fs], t, ww,
              Append(l, [call |-> "tts.synthesize_async", unit |-> r.idx,
                         text |-> r.text, voice |-> t.voice,
                         speed |-> t.speed]),
              "synth", [k EXCEPT !.idx = r.idx, !.filtered = r.text],
              audioOpen[c])

\* A faulty loop that starts over from the first unit each time it resumes.
Iterate_from_first(c, i, s, t, l, k) ==
  \E r \in {loop(k.units, 1, s.speaking, s.markdown_filter)} :
    Iterated(c, s, t, l, k, r)

\* the for loop from unit i
Iterate(c, i, s, t, l, k) ==
  \E r \in {loop(k.units, i, s.speaking, s.markdown_filter)} :
    Iterated(c, s, t, l, k, r)

\* A faulty handler that sends tts_start before it signals the detector.
handle_synthesize_start_first(c) ==
  /\ Ready(c)
  /\ \E f \in Arrived(c) :
     LET m == f.msg
         s == sess[c]
     IN  /\ IsMsg(f, "synthesize")
         /\ IF Silenced(s) THEN Handled(c, f, s, tts, ww, completion(m), "recv")
            ELSE IF ~m.text_is_str THEN TornDown(c, f, tts)
            ELSE IF strip(m.text) = <<>>
                 THEN Handled(c, f, s, tts, ww, completion(m), "recv")
            ELSE Handled(c, f,
                         [s EXCEPT !.current_message_id = m.messageId,
                                   !.speaking = TRUE],
                         tts, ww_set_speaking(ww, TRUE),
                         <<EvMsg("tts_start", m.messageId),
                           CallArg("wakeword.set_speaking", TRUE)>>,
                         "started")
\* the handler up to its first await
handle_synthesize(c) ==
  /\ Ready(c)
  /\ \E f \in Arrived(c) :
     LET m == f.msg
         s == sess[c]
     IN  /\ IsMsg(f, "synthesize")
         /\ IF Silenced(s) THEN Handled(c, f, s, tts, ww, completion(m), "recv")
            \* text.strip() on a value that is no string raises
            ELSE IF ~m.text_is_str THEN TornDown(c, f, tts)
            ELSE IF strip(m.text) = <<>>
                 THEN Handled(c, f, s, tts, ww, completion(m), "recv")
            ELSE Handled(c, f,
                         [s EXCEPT !.current_message_id = m.messageId,
                                   !.speaking = TRUE],
                         tts, ww_set_speaking(ww, TRUE),
                         <<CallArg("wakeword.set_speaking", TRUE),
                           EvMsg("tts_start", m.messageId)>>,
                         "started")

\* if message_id != self._current_message_id: reset the filter and the
\* sentencizer
reset_for(s, message_id) ==
  IF message_id # s.current_message_id
  THEN [s EXCEPT !.markdown_filter = NewFilter, !.sentencizer = <<>>]
  ELSE s

\* tts_start is sent: the try block is entered, the text split, the loop run
enter_try(c) ==
  /\ pc[c] = "started"
  /\ \E sentences \in {split_into_sentences(cur[c].msg.text)} :
       Iterate(c, 1, reset_for(sess[c], cur[c].msg.messageId), tts, log[c],
               [NoCall EXCEPT !.units = sentences])

\* synthesize_async returns a segment with samples: tts_audio is sent
tts_audio(c) ==
  /\ pc[c] = "synth"
  /\ LET e == ensure_loaded(tts, importable)
         m == cur[c].msg
     IN  /\ e.raised = ""
         /\ Resume(c, sess[c], e.tts, ww,
                   Append(log[c], EvAudio(m.messageId, call[c].idx, call[c].filtered)),
                   "paced", call[c], audioOpen[c] \cup {m.messageId})

\* synthesize_async returns a segment without samples: the loop continues
tts_silent(c) ==
  /\ pc[c] = "synth"
  /\ LET e == ensure_loaded(tts, importable) IN
       /\ e.raised = ""
       /\ Iterate(c, call[c].idx + 1, sess[c], e.tts, log[c], call[c])

\* synthesize_async raises (the import of kokoro, or the pipeline): the error
\* event is sent
tts_failed(c) ==
  /\ pc[c] = "synth"
  /\ LET e == ensure_loaded(tts, importable) IN
       Resume(c, sess[c], e.tts, ww, Append(log[c], EvError("TTS failed")),
              "except", [call[c] EXCEPT !.failed = call[c].idx], audioOpen[c])

\* the sleep after tts_audio is over: the loop continues
slept(c) ==
  /\ pc[c] = "paced"
  /\ Iterate(c, call[c].idx + 1, sess[c], tts, log[c], call[c])

\* the error event is sent: the finally clause runs
failed_cleanup(c) ==
  /\ pc[c] = "except"
  /\ Finally(c, sess[c], tts, log[c], call[c])

(***************************************************************************)
(* The specification.                                                      *)
(***************************************************************************)
\* the task of c resumes from an await inside a handler
Continue(c) ==
  \/ wakeword_preloaded(c)
  \/ enter_try(c)
  \/ tts_audio(c)
  \/ tts_silent(c)
  \/ tts_failed(c)
  \/ slept(c)
  \/ failed_cleanup(c)

Next ==
  \E c \in Conns :
    \/ Accept(c)
    \/ Send(c)
    \/ PeerCloses(c)
    \/ Disconnected(c)
    \/ InvalidJson(c)
    \/ NotAnObject(c)
    \/ handle_synthesize(c)
    \/ set_tts_enabled(c)
    \/ set_tts_muted(c)
    \/ set_voice(c)
    \/ set_speed(c)
    \/ set_wakeword_settings(c)
    \/ get_settings(c)
    \/ get_voices(c)
    \/ get_wakeword_models(c)
    \/ stop_speaking(c)
    \/ set_processing(c)
    \/ set_listening(c)
    \/ unrecognized(c)
    \/ handle_audio_chunk(c)
    \/ Continue(c)

Spec == Init /\ [][Next]_vars

\* The event loop resumes every task that can run, and every call of the
\* engine returns or raises: weak fairness of Continue(c).  The task of c can
\* run exactly when it is suspended inside a handler, so that
\* ENABLED <<Continue(c)>>_vars is pc[c] # "recv", and WF_vars(Continue(c)) is
\* written out with it.
Resumed(c) == []<>(pc[c] = "recv") \/ []<><<Continue(c)>>_vars

FairSpec == Spec /\ \A c \in Conns : Resumed(c)

(***************************************************************************)
(* The specification of the sentencizer on its own.                        *)
(***************************************************************************)
SentInit ==
  /\ importable = FALSE
  /\ Idle
  /\ sz \in {Stream(cfg, text) : cfg \in Configs, text \in StreamTexts}
  /\ mf = FilterRun(<<>>)

SentNext == call_add_token \/ call_flush \/ call_reset

SentSpec == SentInit /\ [][SentNext]_vars

(***************************************************************************)
(* The specification of the markdown filter on its own.                    *)
(***************************************************************************)
FilterInit ==
  /\ importable = FALSE
  /\ Idle
  /\ sz = NoStream
  /\ mf \in {FilterRun(text) : text \in Responses}

FilterNext == call_filter_for_tts \/ call_filter_reset

FilterSpec == FilterInit /\ [][FilterNext]_vars

(***************************************************************************)
(* What the properties below speak of.                                     *)
(***************************************************************************)
\* the step in which the loop of c reads a frame: cur'[c] is that frame
Reads(c) == inbox[c] # <<>> /\ inbox'[c] = Tail(inbox[c])

AllSpace(text) == \A i \in DOMAIN text : text[i] \in {" ", "\n", "\t"}

IsSynthCall(e) == IsCall(e) /\ e.call = "tts.synthesize_async"

Completes(m) == <<[ev |-> "tts_complete", messageId |-> m.messageId]>>

\* the positions of the events of one type in a log
At(l, type) == {p \in DOMAIN l : IsEvent(l[p]) /\ l[p].ev = type}

(***************************************************************************)
(* C1.  A call of handle_synthesize for a message whose text is a string   *)
(* (a text that is no string is the malformed frame of C8) sends no        *)
(* tts_complete while it runs; when it has returned it has sent exactly    *)
(* one, with the message id of the message and as the last thing it did,   *)
(* if isFinal is set, and none otherwise.  Every call returns, and so the  *)
(* tts_complete of a final message is eventually sent, given that the      *)
(* event loop resumes the task and the engine returns or raises.           *)
(***************************************************************************)
C1_Completion ==
  \A c \in Conns :
    IsMsg(cur[c], "synthesize") /\ cur[c].msg.text_is_str =>
      /\ conn[c] = "open"
      /\ InSynthesis(c) => At(log[c], "tts_complete") = {}
      /\ pc[c] = "recv" =>
           IF cur[c].msg.isFinal
           THEN /\ At(log[c], "tts_complete") = {Len(log[c])}
                /\ log[c][Len(log[c])].messageId = cur[c].msg.messageId
           ELSE At(log[c], "tts_complete") = {}

C2 ==
  [][\A c \in Conns :
       LET f == cur'[c]
           s == sess[c]
       IN  (/\ Reads(c)
            /\ IsMsg(f, "synthesize")
            /\ \/ ~s.tts_enabled
               \/ s.tts_muted
               \/ f.msg.text_is_str /\ AllSpace(f.msg.text))
           => /\ log'[c] = (IF f.msg.isFinal THEN Completes(f.msg) ELSE <<>>)
              /\ sess'[c] = s
              /\ tts' = tts
              /\ ww' = ww
              /\ pc'[c] = "recv"
              /\ conn'[c] = "open"]_vars

\* a final message with text to speak was read by a muted session
C2_Witness ==
  \E c \in Conns :
    /\ IsMsg(cur[c], "synthesize") /\ cur[c].msg.isFinal
    /\ cur[c].msg.text = TextThree
    /\ sess[c].tts_muted
    /\ pc[c] = "recv"
    /\ log[c] = Completes(cur[c].msg)

(***************************************************************************)
(* C3.  When the peer issues stop_speaking after the tts_audio event of    *)
(* the first of three sentences, no tts_audio event of the second or the   *)
(* third sentence is sent.                                                 *)
(***************************************************************************)
C3 ==
  \A c \in Conns :
    stopAfter[c] = 1 /\ Len(call[c].units) = 3 =>
      \A p \in DOMAIN log[c] : IsAudio(log[c][p]) => log[c][p].unit <= 1

(***************************************************************************)
(* C4.  In one call of handle_synthesize the tts_audio events are sent in  *)
(* the order of the units: the units of the events grow strictly along the *)
(* log.  The engine is called for one unit at a time: the calls grow       *)
(* strictly too, each tts_audio event directly follows the call for its    *)
(* unit, and a call in flight is the last thing the handler did.           *)
(***************************************************************************)
C4 ==
  \A c \in Conns :
    LET l == log[c] IN
      /\ \A p, q \in DOMAIN l :
           p < q /\ IsAudio(l[p]) /\ IsAudio(l[q]) => l[p].unit < l[q].unit
      /\ \A p, q \in DOMAIN l :
           p < q /\ IsSynthCall(l[p]) /\ IsSynthCall(l[q]) => l[p].unit < l[q].unit
      /\ \A p \in DOMAIN l :
           IsAudio(l[p]) =>
             p > 1 /\ IsSynthCall(l[p - 1]) /\ l[p - 1].unit = l[p].unit
      /\ pc[c] = "synth" =>
           IsSynthCall(l[Len(l)]) /\ l[Len(l)].unit = call[c].idx

\* the three units of a message have each produced a tts_audio event
C4_Witness ==
  \E c \in Conns :
    /\ Len(call[c].units) = 3
    /\ {e.unit : e \in {Audio(log[c])[p] : p \in DOMAIN Audio(log[c])}} = {1, 2, 3}

(***************************************************************************)
(* C5.  On one session no tts_audio event of a message id is sent while    *)
(* the synthesis of another message id that has sent one has not run its   *)
(* cleanup: at most one message id is open at a time.                      *)
(***************************************************************************)
C5 == \A c \in Conns : Cardinality(audioOpen[c]) <= 1

\* a second synthesize message is waiting while the first one sends audio
C5_Witness ==
  \E c \in Conns :
    /\ audioOpen[c] # {}
    /\ pc[c] = "paced"
    /\ inbox[c] # <<>> /\ Head(inbox[c]) = "synthesize"

(***************************************************************************)
(* C6.  When the engine fails on a unit of the loop, the handler sends     *)
(* exactly one error event, sends no tts_audio event for that unit or a    *)
(* later one and calls the engine no more, keeps the connection and the    *)
(* session, and runs the cleanup of a normal completion: the speaking flag *)
(* false, set_speaking(False) then set_listening() on the detector, then   *)
(* tts_complete if isFinal is set.                                         *)
(***************************************************************************)
C6 ==
  \A c \in Conns :
    call[c].failed > 0 =>
      LET l == log[c] IN
        /\ conn[c] = "open" /\ c \in sessions
        /\ pc[c] \in {"except", "recv"}
        /\ Cardinality(At(l, "error")) = 1
        /\ \A p \in DOMAIN l :
             IsAudio(l[p]) => l[p].unit < call[c].failed
        /\ \A e \in At(l, "error") :
             /\ \A p \in DOMAIN l : IsAudio(l[p]) \/ IsSynthCall(l[p]) => p < e
             /\ pc[c] = "except" => e = Len(l)
             /\ pc[c] = "recv" =>
                  /\ ~sess[c].speaking
                  /\ SubSeq(l, e + 1, Len(l)) =
                       <<[call |-> "wakeword.set_speaking", arg |-> FALSE],
                         [call |-> "wakeword.set_listening"]>>
                       \o (IF cur[c].msg.isFinal THEN Completes(cur[c].msg) ELSE <<>>)

\* the engine failed on the second unit of a final message, after the audio
\* of the first, and the handler has returned
C6_Witness ==
  \E c \in Conns :
    /\ call[c].failed = 2
    /\ pc[c] = "recv"
    /\ cur[c].msg.isFinal
    /\ Len(Audio(log[c])) = 1

(***************************************************************************)
(* C7 as the specification states it.  A set_voice message whose voice is  *)
(* not in the catalog leaves the engine and the session as they were,      *)
(* sends exactly one error event and no voice_changed event, and the loop  *)
(* goes on; a voice of the catalog becomes the voice of the engine and     *)
(* voice_changed is sent with it.                                          *)
(***************************************************************************)
C7_AsStated ==
  [][\A c \in Conns :
       LET f == cur'[c] IN
         Reads(c) /\ IsMsg(f, "set_voice") =>
           IF f.msg.voice \notin VOICES
           THEN /\ tts' = tts /\ sess'[c] = sess[c]
                /\ Cardinality(At(log'[c], "error")) = 1
                /\ At(log'[c], "voice_changed") = {}
                /\ conn'[c] = "open"
           ELSE /\ tts'.voice = f.msg.voice
                /\ \E p \in At(log'[c], "voice_changed") :
                     log'[c][p].voice = f.msg.voice]_vars

(***************************************************************************)
(* C7.  A set_voice message whose voice is not empty and not in the        *)
(* catalog leaves the engine and the session as they were, sends exactly   *)
(* one error event and no voice_changed event, and the loop goes on; an    *)
(* empty or missing voice is ignored, with no event at all; a voice of the *)
(* catalog becomes the voice of the engine and voice_changed is sent with  *)
(* it.                                                                     *)
(***************************************************************************)
C7 ==
  [][\A c \in Conns :
       LET f == cur'[c] IN
         Reads(c) /\ IsMsg(f, "set_voice") =>
           IF f.msg.voice = ""
           THEN /\ tts' = tts /\ sess'[c] = sess[c]
                /\ log'[c] = <<>>
                /\ conn'[c] = "open"
           ELSE IF f.msg.voice \notin VOICES
           THEN /\ tts' = tts /\ sess'[c] = sess[c]
                /\ Cardinality(At(log'[c], "error")) = 1
                /\ At(log'[c], "voice_changed") = {}
                /\ conn'[c] = "open"
           ELSE /\ tts'.voice = f.msg.voice
                /\ tts'.speed = tts.speed
                /\ At(log'[c], "error") = {}
                /\ \E p \in At(log'[c], "voice_changed") :
                     log'[c][p].voice = f.msg.voice]_vars

\* an unknown voice was refused while the engine was loaded with another
C7_Witness ==
  \E c \in Conns :
    /\ IsMsg(cur[c], "set_voice") /\ cur[c].msg.voice = "nova"
    /\ At(log[c], "error") # {}
    /\ tts.loaded
    /\ conn[c] = "open"

(***************************************************************************)
(* C8.  A malformed text frame (text that is no JSON, JSON that is no      *)
(* object, a synthesize message whose text is no string) is dropped and   *)
(* the connection stays open: its session stays registered and its loop    *)
(* reads on.                                                               *)
(***************************************************************************)
C8 ==
  [][\A c \in Conns :
       LET f == cur'[c] IN
         (/\ Reads(c)
          /\ f.frame = "text"
          /\ \/ f.json # "object"
             \/ f.msg.type = "synthesize" /\ ~f.msg.text_is_str)
         => /\ conn'[c] = "open"
            /\ c \in sessions'
            /\ pc'[c] = "recv"]_vars

(***************************************************************************)
(* C9.  The dict of sessions holds exactly the connections accepted and    *)
(* not torn down.  Nothing is sent on a connection before it is accepted,  *)
(* and connected is what the accept sends.  A connection torn down stays   *)
(* so: its session is not registered again, no frame is read on it and     *)
(* nothing is sent on it.                                                  *)
(***************************************************************************)
C9_Registry ==
  /\ sessions = {c \in Conns : conn[c] = "open"}
  /\ \A c \in Conns : conn[c] = "new" => log[c] = <<>>

C9_Step ==
  \A c \in Conns :
    /\ conn[c] = "new" /\ conn'[c] # "new" =>
         /\ conn'[c] = "open"
         /\ log'[c] = <<[ev |-> "connected", sessionId |-> c]>>
    /\ conn[c] = "closed" =>
         /\ conn'[c] = "closed"
         /\ c \notin sessions'
         /\ cur'[c] = cur[c] /\ sess'[c] = sess[c] /\ log'[c] = log[c]
         /\ inbox'[c] = inbox[c]
    /\ conn[c] = "open" /\ conn'[c] = "closed" =>
         /\ Reads(c)
         /\ c \in sessions /\ c \notin sessions'

C9 == []C9_Registry /\ [][C9_Step]_vars

\* one connection was torn down by a disconnect while the other is served
C9_Witness ==
  \E c, d \in Conns :
    /\ conn[c] = "closed" /\ cur[c] = Disconnect
    /\ conn[d] = "open" /\ sessions = {d}

(***************************************************************************)
(* C10.  The handling of a message whose type is none of the twelve the    *)
(* handler knows, or is missing, sends nothing, calls neither engine and   *)
(* changes neither the session nor the engines nor the connection.         *)
(***************************************************************************)
C10 ==
  [][\A c \in Conns :
       LET f == cur'[c] IN
         (/\ Reads(c)
          /\ f.frame = "text" /\ f.json = "object"
          /\ f.msg.type \notin
               {"synthesize", "set_tts_enabled", "set_tts_muted", "set_voice",
                "set_speed", "set_wakeword_settings", "get_settings",
                "get_voices", "get_wakeword_models", "stop_speaking",
                "set_processing", "set_listening"})
         => /\ log'[c] = <<>>
            /\ sess'[c] = sess[c]
            /\ tts' = tts /\ ww' = ww
            /\ conn' = conn /\ sessions' = sessions
            /\ pc'[c] = "recv"]_vars

\* a message without a type was read by a session that is muted
C10_Witness ==
  \E c \in Conns :
    /\ IsMsg(cur[c], "None")
    /\ sess[c].tts_muted
    /\ conn[c] = "open" /\ pc[c] = "recv" /\ log[c] = <<>>

(***************************************************************************)
(* C11 as the specification states it.  Every event a session sends has    *)
(* one of the ten documented types.                                        *)
(***************************************************************************)
DocumentedEvents ==
  {"connected", "tts_start", "tts_audio", "tts_complete", "error",
   "voice_changed", "settings", "voices", "wakeword_models", "wake_status"}

C11_AsStated ==
  \A c \in Conns : \A p \in DOMAIN log[c] :
    IsEvent(log[c][p]) => log[c][p].ev \in DocumentedEvents

(***************************************************************************)
(* C11.  Every event a session sends has one of the ten documented types   *)
(* or is the wakeword_settings event that answers set_wakeword_settings.   *)
(***************************************************************************)
C11 ==
  \A c \in Conns : \A p \in DOMAIN log[c] :
    IsEvent(log[c][p]) =>
      \/ log[c][p].ev \in DocumentedEvents
      \/ /\ log[c][p].ev = "wakeword_settings"
         /\ IsMsg(cur[c], "set_wakeword_settings")

\* set_wakeword_settings has been answered
C11_Witness ==
  \E c \in Conns :
    /\ IsMsg(cur[c], "set_wakeword_settings")
    /\ At(log[c], "wakeword_settings") # {}

(***************************************************************************)
(* C12.  A step of the task of one connection (it reads a frame, or it     *)
(* resumes inside a handler) changes the session of no other connection    *)
(* (flags, current message id, filter, sentencizer), sends nothing on      *)
(* another connection and moves no other task.                             *)
(***************************************************************************)
Acts(a) ==
  \/ Reads(a)
  \/ pc'[a] # pc[a]
  \/ pc[a] # "recv" /\ log'[a] # log[a]

C12 ==
  [][\A a, b \in Conns :
       a # b /\ Acts(a) =>
         /\ sess'[b] = sess[b]
         /\ log'[b] = log[b]
         /\ pc'[b] = pc[b]
         /\ cur'[b] = cur[b]]_vars

\* one session is muted while the other, unmuted, starts a synthesis
C12_Witness ==
  \E a, b \in Conns :
    /\ a # b
    /\ conn[a] = "open" /\ sess[a].tts_muted
    /\ conn[b] = "open" /\ ~sess[b].tts_muted /\ pc[b] = "started"

(***************************************************************************)
(* The sentencizer.                                                        *)
(***************************************************************************)
\* text is the units in order, with whitespace only before, between and
\* after them
RECURSIVE Rebuilds(_, _)
Rebuilds(units, text) ==
  IF units = <<>> THEN lstrip(text) = <<>>
  ELSE /\ Len(Head(units)) <= Len(lstrip(text))
       /\ Upto(lstrip(text), Len(Head(units))) = Head(units)
       /\ Rebuilds(Tail(units), From(lstrip(text), Len(Head(units))))

RECURSIVE Concat(_)
Concat(units) == IF units = <<>> THEN <<>> ELSE Head(units) \o Concat(Tail(units))

\* C13: once a stream of tokens fed to add_token is followed by flush, the
\* units returned for it, in order, spell the concatenated tokens: the text
\* fed is the units in order with nothing but whitespace before, between and
\* after them, so that no other character is lost, duplicated or reordered.
C13 == sz.last.op = "flush" => Rebuilds(sz.units, sz.fed)

\* a whole text was fed in several tokens and flushed, three units or more
\* were returned, and whitespace was dropped between them
C13_Witness ==
  /\ sz.last.op = "flush"
  /\ ~sz.last.none
  /\ sz.fed = sz.text
  /\ sz.text = TextClauses
  /\ Len(sz.units) >= 3
  /\ Concat(sz.units) # sz.fed

\* C14: the sentence rule of add_token returns no unit whose boundary is a
\* sentence-ending character at which the lower-cased buffer ends with an
\* abbreviation of the table; and whatever the tokens that spell
\* "Dr. Smith arrived.", add_token returns no unit that ends at "Dr.".
C14 ==
  sz.last.op = "add_token" /\ ~sz.last.none =>
    /\ sz.last.rule = "sentence" =>
         \A abbrev \in ABBREVIATIONS :
           ~endswith(lower(Upto(sz.last.buffered, sz.last.at)), abbrev)
    /\ sz.text = TextDoctor => sz.last.unit # <<"D", "r", ".">>

\* the buffer was "Dr." after the token ".", at an offset the configuration
\* accepts, and add_token returned nothing
C14_Witness ==
  /\ sz.last.op = "add_token"
  /\ sz.last.buffered = <<"D", "r", ".">>
  /\ sz.s.min_sentence_length <= 3
  /\ sz.last.none
  /\ sz.s.buffer = sz.last.buffered

\* C15: the sentence rule of add_token returns no unit whose boundary is a
\* dot that follows a digit; and whatever the tokens that spell "the value is
\* 3.14 exactly.", add_token returns no unit that ends at the dot of 3.14.
C15 ==
  sz.last.op = "add_token" /\ ~sz.last.none =>
    /\ sz.last.rule = "sentence" =>
         ~ /\ sz.last.buffered[sz.last.at] = "."
           /\ sz.last.at > 1
           /\ isdigit(sz.last.buffered[sz.last.at - 1])
    /\ sz.text = TextDecimal => ~endswith(sz.last.unit, <<"3", ".">>)

\* the buffer ended with "3." at an offset the configuration accepts, and
\* add_token returned nothing
C15_Witness ==
  /\ sz.last.op = "add_token"
  /\ sz.text = TextDecimal
  /\ endswith(sz.last.buffered, <<"3", ".">>)
  /\ Len(sz.last.buffered) >= sz.s.min_sentence_length
  /\ sz.last.none

\* C16: the sentence rule of add_token returns a unit only at a boundary
\* offset of min_sentence_length or more; with min_sentence_length = 10 the
\* buffer "Hi." yields nothing, and the tokens that spell "Hi. Hello there
\* friend." yield nothing until the sentence rule accepts a boundary at
\* offset 10 or more.
C16 ==
  sz.last.op = "add_token" =>
    /\ sz.last.rule = "sentence" => sz.last.at >= sz.s.min_sentence_length
    /\ sz.s.min_sentence_length = 10 /\ sz.last.buffered = <<"H", "i", ".">> =>
         sz.last.none
    /\ sz.s.min_sentence_length = 10 /\ sz.text = TextShort /\ ~sz.last.none =>
         sz.last.rule = "sentence" /\ sz.last.at >= 10

\* with min_sentence_length = 10, "Hi." was fed and yielded nothing, and the
\* tokens after it yielded the whole text at offset 23
C16_Witness ==
  /\ sz.last.op = "add_token"
  /\ sz.s.min_sentence_length = 10
  /\ sz.text = TextShort
  /\ sz.resets = 0
  /\ sz.last.buffered = TextShort
  /\ sz.units = <<TextShort>>
  /\ sz.last.at = 23

\* the buffer holds a space and no sentence or clause punctuation
SpacedWords(buffer) ==
  /\ \E i \in DOMAIN buffer : buffer[i] = " "
  /\ \A i \in DOMAIN buffer : buffer[i] \notin SENTENCE_ENDINGS \cup CLAUSE_ENDINGS

\* C17: when the text add_token runs on is longer than max_buffer_length and
\* holds spaces but no sentence or clause punctuation, add_token splits it at
\* the last space before max_buffer_length, and the buffer it keeps is
\* strictly shorter than max_buffer_length.
C17 ==
  /\ sz.last.op = "add_token"
  /\ Len(sz.last.buffered) > sz.s.max_buffer_length
  /\ SpacedWords(sz.last.buffered)
  => /\ sz.last.rule = "force"
     /\ sz.last.at = rfind_space(sz.last.buffered, sz.s.max_buffer_length)
     /\ Len(sz.s.buffer) < sz.s.max_buffer_length

\* C18: flush returns the trimmed buffer when the buffer holds a character
\* that is not whitespace and nothing otherwise, and the buffer is empty
\* after it in both cases.
C18 ==
  sz.last.op = "flush" =>
    /\ strip(sz.last.buffered) # <<>> =>
         ~sz.last.none /\ sz.last.unit = strip(sz.last.buffered)
    /\ strip(sz.last.buffered) = <<>> => sz.last.none
    /\ sz.s.buffer = <<>>

\* C19: reset leaves the buffer empty whatever it held, and from then on, after
\* any number of resets, every add_token and flush returns what it returns
\* on an instance newly constructed with the same configuration and given the
\* same calls since the reset.
C19 ==
  sz.resets > 0 =>
    /\ sz.last.op = "reset" => sz.s.buffer = <<>>
    /\ sz.last.none = sz.last.fresh_none
    /\ sz.last.unit = sz.last.fresh_unit
    /\ sz.s = sz.fresh

\* after a second reset, the tokens fed have yielded two units or more, the
\* last of them by flush
C19_Witness ==
  /\ sz.resets = 2
  /\ sz.last.op = "flush"
  /\ ~sz.last.none
  /\ Len(sz.units) >= 2
  /\ sz.fed = sz.text

(***************************************************************************)
(* The markdown filter.                                                    *)
(***************************************************************************)
\* the announcement of the block the filter is in
Announcement(fs) ==
  IF fs.in_mermaid THEN DiagramAnnouncement ELSE SnippetAnnouncement

\* C20: a filter_for_tts call on a filter outside a code block that leaves
\* the filter inside one (the call held an opening fence and no closing fence
\* for it) returns the announcement of the block, alone or before the plain
\* text that preceded the fence; so does the call with "Explanation: " and
\* the fence of a python block.
C20 ==
  /\ mf.last.op = "filter_for_tts"
  /\ ~mf.last.before.in_code_block
  /\ mf.fs.in_code_block
  => /\ Len(mf.last.text) >= Len(Announcement(mf.fs))
     /\ Upto(mf.last.text, Len(Announcement(mf.fs))) = Announcement(mf.fs)

\* the chunk holds one fence, and no backticks at its end for the filter to
\* hold back
OneFence(chunk) ==
  /\ FindFence(chunk, 1) # 0
  /\ FindFence(chunk, FindFence(chunk, 1) + 3) = 0
  /\ TrailingBackticks(chunk) = 0

\* what follows the fence of the chunk and the word characters after it
AfterFence(chunk) ==
  SubSeq(chunk, RunEnd(chunk, FindFence(chunk, 1) + 3, WordChars), Len(chunk))

\* C21: a filter_for_tts call that starts inside a code block an earlier call
\* opened, and whose chunk holds the closing fence and plain text after it,
\* returns that text trimmed and nothing of
\* the text before the fence, and leaves the filter outside a code block; the
\* call with "print(1)", a newline, the fence and " done" returns "done".
C21 ==
  /\ mf.last.op = "filter_for_tts"
  /\ mf.last.before.in_code_block
  /\ OneFence(mf.last.chunk)
  /\ strip(AfterFence(mf.last.chunk)) # <<>>
  => /\ mf.last.text = strip(AfterFence(mf.last.chunk))
     /\ ~mf.fs.in_code_block

\* call 1 passed the text up to the python fence, call 2 the rest, and call 2
\* returned "done"
C21_Witness ==
  /\ mf.last.op = "filter_for_tts"
  /\ mf.text = ResponseSnippet
  /\ mf.last.before.in_code_block
  /\ mf.last.chunk = SubSeq(ResponseSnippet, 23, Len(ResponseSnippet))
  /\ mf.last.text = <<"d", "o", "n", "e">>
  /\ ~mf.fs.in_code_block

\* C22: in every state of the filter that filter_for_tts and reset calls
\* reach, in_mermaid implies in_code_block.
C22 == mf.fs.in_mermaid => mf.fs.in_code_block

\* a call has left the filter inside a mermaid block
C22_Witness == mf.last.op = "filter_for_tts" /\ mf.fs.in_mermaid

\* the text the loop of _handle_code_blocks ran over in the last call
Scanned(before, chunk) ==
  IF held(TrailingBackticks(before.pending_backticks \o chunk))
  THEN SubSeq(before.pending_backticks \o chunk, 1,
              Len(before.pending_backticks \o chunk)
                - TrailingBackticks(before.pending_backticks \o chunk))
  ELSE before.pending_backticks \o chunk

\* the flags of the filter before the loop and after each of its iterations
RECURSIVE FenceSteps(_, _, _, _)
FenceSteps(t, p, was_in_code_block, st) ==
  IF p = 0 THEN <<st>>
  ELSE <<st>> \o
       FenceSteps(t, FindFence(t, RunEnd(t, p + 3, WordChars)), was_in_code_block,
                  fence_step(t, p, RunEnd(t, p + 3, WordChars), was_in_code_block, st))

LastFenceSteps ==
  FenceSteps(Scanned(mf.last.before, mf.last.chunk),
             FindFence(Scanned(mf.last.before, mf.last.chunk), 1),
             mf.last.before.in_code_block,
             [in_code_block |-> mf.last.before.in_code_block,
              in_mermaid |-> mf.last.before.in_mermaid,
              code_block_announced |-> mf.last.before.code_block_announced,
              parts |-> <<>>, announcement |-> <<>>,
              found_any_fence |-> FALSE, last |-> 1])

\* C23: in the fence processing of filter_for_tts the announced flag goes
\* from true to false at the very iterations at which in_code_block goes from
\* true to false, and between calls the announced flag is true exactly when
\* the filter is inside a code block.
C23 ==
  /\ mf.fs.code_block_announced <=> mf.fs.in_code_block
  /\ mf.last.op = "filter_for_tts" =>
       \A k \in 1..(Len(LastFenceSteps) - 1) :
         (LastFenceSteps[k].code_block_announced
            /\ ~LastFenceSteps[k + 1].code_block_announced)
         <=> (LastFenceSteps[k].in_code_block
                /\ ~LastFenceSteps[k + 1].in_code_block)

\* one call passed an opening fence and its closing fence, announced the
\* block and left the filter outside it
C23_Witness ==
  /\ mf.last.op = "filter_for_tts"
  /\ Len(LastFenceSteps) >= 3
  /\ LastFenceSteps[2].code_block_announced
  /\ ~mf.fs.code_block_announced
  /\ mf.last.text # <<>>

\* the text holds no markdown construct: letters, whitespace and . ' : ( )
Plain(text) ==
  \A i \in DOMAIN text :
    text[i] \in (WordChars \ {"0","1","2","3","4","5","6","7","8","9","_"})
                  \cup {" ", "\n", "\t", ".", "'", ":", "(", ")"}

\* C24 as stated: filter_for_tts on a filter outside a code block returns a
\* text with no markdown construct unchanged, and for every input on a new
\* filter, filtering the result again on a new filter returns that result.
C24_AsStated ==
  mf.last.op = "filter_for_tts" =>
    /\ ~mf.last.before.in_code_block /\ Plain(mf.last.chunk) =>
         mf.last.text = mf.last.chunk
    /\ mf.last.before = NewFilter => mf.last.again = mf.last.text

\* C24: for a text of letters, whitespace and . ' : ( ) only, filter_for_tts
\* on a filter that is outside a code block and holds no backticks back
\* returns the text with every run of whitespace made one space and the
\* whitespace at its ends removed (nothing if nothing is left), and a new
\* filter returns that result for that result.
C24 ==
  /\ mf.last.op = "filter_for_tts"
  /\ ~mf.last.before.in_code_block
  /\ mf.last.before.pending_backticks = <<>>
  /\ Plain(mf.last.chunk)
  => /\ mf.last.text = strip(sub_spaces(mf.last.chunk, 1))
     /\ mf.last.again = mf.last.text

\* a plain chunk with a newline in it was returned with a space in its place
C24_Witness ==
  /\ mf.last.op = "filter_for_tts"
  /\ ~mf.last.before.in_code_block
  /\ mf.last.before.pending_backticks = <<>>
  /\ Plain(mf.last.chunk)
  /\ \E i \in DOMAIN mf.last.chunk : mf.last.chunk[i] = "\n"
  /\ mf.last.text # <<>>
  /\ mf.last.text # mf.last.chunk
  /\ mf.last.again = mf.last.text

(***************************************************************************)
(* The synthesis of one message.                                           *)
(***************************************************************************)
\* C25: on the path of handle_synthesize that is not skipped, once tts_start
\* is sent the session holds the id of the message and its speaking flag,
\* and the detector was told set_speaking(true) before tts_start was sent;
\* the first call of the engine and every tts_audio event come after that
\* tts_start, and every tts_audio event carries its messageId.
C25 ==
  \A c \in Conns :
    IsMsg(cur[c], "synthesize") =>
      /\ pc[c] = "started" =>
           /\ sess[c].current_message_id = cur[c].msg.messageId
           /\ sess[c].speaking
           /\ log[c] = <<CallArg("wakeword.set_speaking", TRUE),
                         EvMsg("tts_start", cur[c].msg.messageId)>>
      /\ \A p \in DOMAIN log[c] :
           IsAudio(log[c][p]) \/ IsSynthCall(log[c][p]) =>
             /\ p > 2
             /\ log[c][1] = CallArg("wakeword.set_speaking", TRUE)
             /\ log[c][2] = EvMsg("tts_start", cur[c].msg.messageId)
             /\ IsAudio(log[c][p]) => log[c][p].messageId = cur[c].msg.messageId

\* the second tts_audio event of a message has been sent
C25_Witness ==
  \E c \in Conns :
    /\ IsMsg(cur[c], "synthesize")
    /\ pc[c] = "paced"
    /\ Len(Audio(log[c])) = 2

\* the filter yields nothing for the units i to j - 1, from the filter fs on
RECURSIVE Skipped(_, _, _, _)
Skipped(units, i, j, fs) ==
  i >= j \/ /\ filter_for_tts(fs, units[i]).text = <<>>
            /\ Skipped(units, i + 1, j, filter_for_tts(fs, units[i]).fs)

\* the filter after the units i to j - 1, from the filter fs on
RECURSIVE FilterAfter(_, _, _, _)
FilterAfter(units, i, j, fs) ==
  IF i >= j THEN fs
  ELSE FilterAfter(units, i + 1, j, filter_for_tts(fs, units[i]).fs)

\* the task of c runs the loop on: from the unit From, with the filter Of
LoopRuns(c) ==
  /\ pc[c] \in {"started", "synth", "paced"}
  /\ pc'[c] # pc[c] \/ call'[c] # call[c]
FromUnit(c) == IF pc[c] = "started" THEN 1 ELSE call[c].idx + 1

\* C26: in the synthesis loop, a unit the filter yields nothing for causes no
\* call of the engine and no tts_audio event, and a unit whose audio has no
\* samples causes no tts_audio event; in both cases the loop goes on with the
\* next unit.  The engine is called for the first unit the filter leaves
\* text of, with that text, and the loop ends when there is none; the return
\* of the engine with samples sends the one tts_audio event of the unit.
C26 ==
  [][\A c \in Conns :
       /\ LoopRuns(c) /\ pc'[c] = "synth" =>
            /\ Skipped(call'[c].units, FromUnit(c), call'[c].idx,
                       sess[c].markdown_filter)
            /\ call'[c].filtered # <<>>
            /\ call'[c].filtered =
                 filter_for_tts(FilterAfter(call'[c].units, FromUnit(c),
                                            call'[c].idx, sess[c].markdown_filter),
                                call'[c].units[call'[c].idx]).text
            /\ log'[c] = Append(log[c], [call |-> "tts.synthesize_async",
                                         unit |-> call'[c].idx,
                                         text |-> call'[c].filtered,
                                         voice |-> tts.voice,
                                         speed |-> tts.speed])
       /\ LoopRuns(c) /\ pc'[c] = "recv" =>
            /\ Skipped(call'[c].units, FromUnit(c), Len(call'[c].units) + 1,
                       sess[c].markdown_filter)
            /\ Audio(log'[c]) = Audio(log[c])
            /\ Calls(log'[c]) = Calls(log[c]) \o Calls(cleanup(cur[c].msg))
       /\ LoopRuns(c) /\ pc[c] = "synth" /\ pc'[c] = "paced" =>
            log'[c] = Append(log[c], EvAudio(cur[c].msg.messageId, call[c].idx,
                                             call[c].filtered))
    ]_vars

\* on one connection the filter yielded nothing for both units of a message
\* and the loop ran to its end without a call of the engine; on another the
\* audio of the first unit had no samples and the tts_audio event of the
\* second unit was sent
C26_Witness ==
  \E a, b \in Conns :
    /\ IsMsg(cur[a], "synthesize") /\ cur[a].msg.text = TextFence
    /\ pc[a] = "recv" /\ call[a].idx = 3
    /\ At(log[a], "tts_start") # {}
    /\ \A p \in DOMAIN log[a] : ~IsSynthCall(log[a][p])
    /\ IsMsg(cur[b], "synthesize") /\ pc[b] = "paced"
    /\ Len(Audio(log[b])) = 1 /\ Audio(log[b])[1].unit = 2

\* C27: once a stop_speaking message has arrived during a synthesis, at most
\* one further tts_audio event (that of the unit whose call of the engine was
\* under way) is sent for the message.
C27 ==
  \A c \in Conns :
    stopAfter[c] >= 0 =>
      Cardinality({p \in DOMAIN log[c] :
                     IsAudio(log[c][p]) /\ log[c][p].unit > stopAfter[c]}) <= 1

\* C28: when a synthesize message that is not skipped carries a messageId
\* other than the current_message_id the session held when the message was
\* read, the first unit of the message is filtered by a filter that has been
\* reset: the loop starts from the filter of a new session.
C28 ==
  [][\A c \in Conns :
       /\ pc[c] = "started" /\ pc'[c] # "started"
       /\ prior[c] # cur[c].msg.messageId
       => /\ pc'[c] = "synth" =>
               /\ Skipped(call'[c].units, 1, call'[c].idx, NewFilter)
               /\ call'[c].filtered =
                    filter_for_tts(FilterAfter(call'[c].units, 1, call'[c].idx,
                                               NewFilter),
                                   call'[c].units[call'[c].idx]).text
          /\ pc'[c] = "recv" =>
               Skipped(call'[c].units, 1, Len(call'[c].units) + 1, NewFilter)
    ]_vars

\* the sentence rule returns a unit of the buffer b: a boundary the rule
\* accepts lies at min_sentence_length or later
SentenceRuleApplies(s, b) ==
  \E p \in 1..Len(b) :
    p >= s.min_sentence_length /\ is_sentence_end(b[p], Upto(b, p - 1))

\* the character at p of the buffer b is a clause character followed by a
\* space or by the end of the buffer
ClauseCharAt(b, p) ==
  b[p] \in CLAUSE_ENDINGS /\ (p = Len(b) \/ b[p + 1] = " ")

\* the clause rule returns a unit of the buffer b
ClauseRuleApplies(s, b) ==
  /\ Len(b) >= s.min_clause_length
  /\ \E p \in 1..Len(b) : p >= s.min_clause_length /\ ClauseCharAt(b, p)

\* C29: add_token applies its rules in priority order on the buffer with the
\* token appended.  A clause unit is returned only when the sentence rule
\* returns nothing, the buffer has min_clause_length characters or more and
\* the unit ends at a clause character, followed by a space or the end of
\* the buffer, at offset min_clause_length or later.  A forced unit is
\* returned only when neither the sentence rule nor the clause rule returns
\* a unit.  A call returns one unit at most: what follows the unit stays in
\* the buffer.
C29 ==
  sz.last.op = "add_token" =>
    /\ sz.last.rule = "clause" =>
         /\ ~SentenceRuleApplies(sz.s, sz.last.buffered)
         /\ Len(sz.last.buffered) >= sz.s.min_clause_length
         /\ sz.last.at >= sz.s.min_clause_length
         /\ ClauseCharAt(sz.last.buffered, sz.last.at)
    /\ sz.last.rule = "force" =>
         /\ ~SentenceRuleApplies(sz.s, sz.last.buffered)
         /\ ~ClauseRuleApplies(sz.s, sz.last.buffered)
    /\ sz.last.rule = "sentence" => SentenceRuleApplies(sz.s, sz.last.buffered)
    /\ sz.last.none <=> sz.last.rule = "none"
    /\ ~sz.last.none =>
         sz.s.buffer = lstrip(From(sz.last.buffered, sz.last.at))

\* a clause unit was returned of a buffer over max_buffer_length that the
\* forced split would have cut as well
C29_Witness ==
  /\ sz.last.op = "add_token" /\ sz.last.rule = "clause"
  /\ Len(sz.last.buffered) > sz.s.max_buffer_length
  /\ rfind_space(sz.last.buffered, sz.s.max_buffer_length) > sz.s.min_sentence_length

\* C30: when the buffer is longer than max_buffer_length and neither the
\* sentence rule nor the clause rule returns a unit, add_token splits at the
\* last space before max_buffer_length whenever that offset is
\* min_sentence_length or more, the offset min_sentence_length included.
C30 ==
  /\ sz.last.op = "add_token"
  /\ Len(sz.last.buffered) > sz.s.max_buffer_length
  /\ ~SentenceRuleApplies(sz.s, sz.last.buffered)
  /\ ~ClauseRuleApplies(sz.s, sz.last.buffered)
  /\ rfind_space(sz.last.buffered, sz.s.max_buffer_length) >= sz.s.min_sentence_length
  => /\ sz.last.rule = "force"
     /\ sz.last.at = rfind_space(sz.last.buffered, sz.s.max_buffer_length)

\* C31: whenever add_token extracts a unit, the offset of the boundary lies
\* within 0 .. len(buffer) of the buffer before the extraction, and the
\* buffer left by the extraction starts with no whitespace.  The buffer
\* changes only by the appending of a token, by such an extraction, by
\* flush or by reset.
C31 ==
  [][/\ sz'.last.op = "add_token" /\ ~sz'.last.none =>
          /\ sz'.last.at \in 0..Len(sz'.last.buffered)
          /\ sz'.s.buffer = <<>> \/ ~IsSpace(sz'.s.buffer[1])
     /\ sz'.s.buffer # sz.s.buffer =>
          \/ /\ sz'.last.op = "add_token"
             /\ Len(sz'.last.buffered) > Len(sz.s.buffer)
             /\ Upto(sz'.last.buffered, Len(sz.s.buffer)) = sz.s.buffer
             /\ IF sz'.last.none
                THEN sz'.s.buffer = sz'.last.buffered
                ELSE sz'.s.buffer = lstrip(From(sz'.last.buffered, sz'.last.at))
          \/ sz'.last.op \in {"flush", "reset"} /\ sz'.s.buffer = <<>>
    ]_vars

\* a forced split was made at a space of a buffer already held in part, and
\* the buffer left, which is not empty, does not start with that space
C31_Witness ==
  /\ sz.last.op = "add_token" /\ sz.last.rule = "force"
  /\ sz.last.at + 2 <= Len(sz.last.buffered)
  /\ IsSpace(sz.last.buffered[sz.last.at + 1])
  /\ sz.s.buffer = From(sz.last.buffered, sz.last.at + 1)
  /\ Len(sz.fed) > Len(sz.last.buffered)

(***************************************************************************)
(* The filter and the blocks of the whole response.                        *)
(***************************************************************************)
\* What each character of the response t is, from the index i on: part of a
\* fence (three backticks and the word characters after them), "in" a block
\* or "out" of every block; inside: an opening fence precedes i unclosed.
RECURSIVE Mark(_, _, _)
Mark(t, i, inside) ==
  IF i > Len(t) THEN <<>>
  ELSE IF FindFence(t, i) = i
  THEN [k \in 1..(RunEnd(t, i + 3, WordChars) - i) |-> "fence"]
         \o Mark(t, RunEnd(t, i + 3, WordChars), ~inside)
  ELSE <<IF inside THEN "in" ELSE "out">> \o Mark(t, i + 1, inside)

\* the word characters of the response t with the mark m among the indices
\* from .. to
RECURSIVE Marked(_, _, _, _, _)
Marked(t, marks, m, from, to) ==
  IF from > to THEN <<>>
  ELSE (IF marks[from] = m /\ t[from] \in WordChars THEN <<t[from]>> ELSE <<>>)
         \o Marked(t, marks, m, from + 1, to)

WordCharsOf(t) == SelectSeq(t, LAMBDA ch : ch \in WordChars)

\* the text t without the announcement of a block it starts with
Spoken(t) ==
  IF Len(t) >= Len(SnippetAnnouncement)
       /\ SubSeq(t, 1, Len(SnippetAnnouncement)) = SnippetAnnouncement
  THEN SubSeq(t, Len(SnippetAnnouncement) + 1, Len(t))
  ELSE IF Len(t) >= Len(DiagramAnnouncement)
       /\ SubSeq(t, 1, Len(DiagramAnnouncement)) = DiagramAnnouncement
  THEN SubSeq(t, Len(DiagramAnnouncement) + 1, Len(t))
  ELSE t

\* the characters of a are characters of b, in the order of b
RECURSIVE IsSubseq(_, _)
IsSubseq(a, b) ==
  IF a = <<>> THEN TRUE
  ELSE IF b = <<>> THEN FALSE
  ELSE IF Head(a) = Head(b) THEN IsSubseq(Tail(a), Tail(b))
  ELSE IsSubseq(a, Tail(b))

\* the word characters of the last chunk that lie outside, or in, the blocks
\* of the response
LastChunkMarked(m) ==
  Marked(mf.text, Mark(mf.text, 1, FALSE), m,
         mf.pos - Len(mf.last.chunk) + 1, mf.pos)

\* C32: however the response is cut into chunks, no text between an opening
\* fence and its closing fence is part of a string filter_for_tts returns.
\* A call that starts inside a block and has no fence in its text returns
\* nothing; the word characters of a string returned, the announcement of a
\* block apart, are word characters the chunk has outside the blocks of the
\* response, in their order, so that a call on a chunk with none returns
\* at most the announcement.
C32 ==
  mf.last.op = "filter_for_tts" =>
    /\ mf.last.before.in_code_block
         /\ FindFence(Scanned(mf.last.before, mf.last.chunk), 1) = 0
       => mf.last.text = <<>>
    /\ IsSubseq(WordCharsOf(Spoken(mf.last.text)), LastChunkMarked("out"))

\* a call that started inside the mermaid block was given the rest of the
\* diagram, the closing fence and the text after it, and returned "ok"
C32_Witness ==
  /\ mf.last.op = "filter_for_tts"
  /\ mf.text = ResponseDiagram
  /\ mf.last.before.in_code_block
  /\ Len(LastChunkMarked("in")) >= 3
  /\ mf.last.text = <<"o", "k">>

\* the text t of one call ends with one or two backticks of a fence that the
\* chunk of the next call completes
SplitFence(t, chunk) ==
  /\ held(TrailingBackticks(t))
  /\ Len(chunk) >= 3 - TrailingBackticks(t)
  /\ \A k \in 1..(3 - TrailingBackticks(t)) : chunk[k] = Backtick

Flags(fs) == <<fs.in_code_block, fs.in_mermaid>>

\* C33: a fence of three backticks split between two successive calls of
\* filter_for_tts (one or two backticks end the text of the first, the rest
\* start the chunk of the second) is one fence.  The first call holds its
\* trailing backticks in pending_backticks and returns what it returns for
\* the chunk without them; the second call leaves in_code_block and
\* in_mermaid as one call with the two chunks as one would.
C33 ==
  [][/\ mf.last.op = "filter_for_tts"
     /\ mf'.last.op = "filter_for_tts"
     /\ SplitFence(mf.last.before.pending_backticks \o mf.last.chunk,
                   mf'.last.chunk)
     => /\ mf.fs.pending_backticks =
             [k \in 1..TrailingBackticks(mf.last.before.pending_backticks
                                           \o mf.last.chunk) |-> Backtick]
        /\ mf'.last.before = mf.fs
        /\ mf.last.text =
             filter_for_tts(mf.last.before,
                            SubSeq(mf.last.chunk, 1,
                                   Len(mf.last.chunk)
                                     - TrailingBackticks(mf.last.chunk))).text
        /\ Flags(mf'.fs) =
             Flags(filter_for_tts(mf.last.before,
                                  mf.last.chunk \o mf'.last.chunk).fs)
    ]_vars

\* the opening fence of the mermaid block came in two calls, two backticks
\* then the third and the language, and the filter is in a mermaid block
C33_Witness ==
  /\ mf.last.op = "filter_for_tts"
  /\ mf.last.before.pending_backticks = <<Backtick, Backtick>>
  /\ ~mf.last.before.in_code_block
  /\ mf.last.chunk[1] = Backtick
  /\ mf.fs.in_mermaid

(***************************************************************************)
(* The engines the sessions share.                                         *)
(***************************************************************************)
\* the receive loop of c reads a message of the type in this step
ReadsMsg(c, type) == Reads(c) /\ IsMsg(cur'[c], type)

LastOf(l) == l[Len(l)]

\* C34: the sessions share one engine.  A set_voice that a session answers
\* with voice_changed sets the voice of that engine and a set_speed its
\* speed (within 0.5 .. 2.0), nothing else changes them, and the settings
\* event of any session reports, and the engine call of any session uses,
\* the voice and the speed the engine holds then: those last set by any
\* session.
C34 ==
  [][/\ \A c \in Conns :
          /\ ReadsMsg(c, "set_voice") /\ log'[c] # <<>>
               /\ LastOf(log'[c]) = [ev |-> "voice_changed",
                                     voice |-> cur'[c].msg.voice]
             => tts'.voice = cur'[c].msg.voice
          /\ ReadsMsg(c, "set_speed") /\ conn'[c] = "open" =>
               tts'.speed = Max(50, Min(200, cur'[c].msg.speed))
          /\ ReadsMsg(c, "get_settings") /\ conn'[c] = "open" =>
               /\ LastOf(log'[c]).ev = "settings"
               /\ LastOf(log'[c]).tts.voice = tts.voice
               /\ LastOf(log'[c]).tts.speed = tts.speed
          /\ LoopRuns(c) /\ pc'[c] = "synth" =>
               /\ LastOf(log'[c]).voice = tts.voice
               /\ LastOf(log'[c]).speed = tts.speed
     /\ tts'.voice # tts.voice =>
          \E c \in Conns : ReadsMsg(c, "set_voice") /\ cur'[c].msg.voice = tts'.voice
     /\ tts'.speed # tts.speed => \E c \in Conns : ReadsMsg(c, "set_speed")
    ]_vars

\* one session changed the voice and another, which set no voice, had a unit
\* synthesized in that voice
C34_Witness ==
  \E a, b \in Conns :
    /\ a # b
    /\ IsMsg(cur[a], "set_voice")
    /\ log[a] # <<>> /\ LastOf(log[a]) = [ev |-> "voice_changed", voice |-> "bm_george"]
    /\ IsMsg(cur[b], "synthesize") /\ pc[b] = "paced"
    /\ \E p \in DOMAIN log[b] : IsSynthCall(log[b][p]) /\ log[b][p].voice = "bm_george"

\* C35: a binary frame goes to the wake-word path only.  With the detector
\* disabled it causes no call of the detector and no event; with the
\* detector enabled the chunk is processed once, and a wake_status event
\* (state active, detected true) is sent exactly when the detector reports
\* a detection.  In neither case does the frame change tts_enabled,
\* tts_muted, the speaking flag or current_message_id.
C35 ==
  [][\A c \in Conns :
       Reads(c) /\ cur'[c].frame = "bytes" =>
         /\ sess'[c] = sess[c]
         /\ ~ww.enabled => log'[c] = <<>> /\ ww' = ww
         /\ ww.enabled =>
              \/ log'[c] = <<Call("wakeword.process")>> /\ ww' = ww
              \/ /\ log'[c] = <<Call("wakeword.process"),
                                [ev |-> "wake_status", state |-> "active",
                                 detected |-> TRUE]>>
                 /\ ww' = ww_process(ww, TRUE)
    ]_vars

\* C36: whenever a session is inside its synthesis loop with its speaking
\* flag set, the detector the sessions share is in the speaking state: the
\* completion or the stop_speaking of one session does not put it back to
\* listening while another session is speaking.
C36 ==
  \A c \in Conns :
    pc[c] \in {"started", "synth", "paced"} /\ sess[c].speaking =>
      ww.state = "speaking"

\* C37: on one connection the frames are handled one at a time in the order
\* of their arrival.  The receive loop reads a frame, the oldest one not yet
\* read, only when no handler of the session is in progress: while a handler
\* is suspended (a whole handle_synthesize with its calls of the engine and
\* its pacing delays) the frames that arrive wait, in order.
C37 ==
  [][\A c \in Conns :
       /\ Reads(c) =>
            /\ pc[c] = "recv"
            /\ Kind(cur'[c]) = Head(inbox[c])
       /\ pc[c] # "recv" =>
            /\ Len(inbox'[c]) >= Len(inbox[c])
            /\ SubSeq(inbox'[c], 1, Len(inbox[c])) = inbox[c]
    ]_vars

\* a frame waits unread while the synthesis before it sleeps between two
\* units
C37_Witness ==
  \E c \in Conns :
    /\ pc[c] = "paced"
    /\ inbox[c] # <<>>
    /\ Len(Audio(log[c])) = 1
    /\ Len(call[c].units) = 3

\* the texts the engine is called with for the units from i on, by a filter
\* that starts as fs
RECURSIVE FilteredUnits(_, _, _)
FilteredUnits(units, i, fs) ==
  IF i > Len(units) THEN <<>>
  ELSE (IF filter_for_tts(fs, units[i]).text = <<>> THEN <<>>
        ELSE <<filter_for_tts(fs, units[i]).text>>)
         \o FilteredUnits(units, i + 1, filter_for_tts(fs, units[i]).fs)

SynthTexts(l) ==
  [k \in DOMAIN SelectSeq(l, IsSynthCall) |-> SelectSeq(l, IsSynthCall)[k].text]

\* C38: what is spoken for a message depends on the text of that message
\* only.  Whatever the text of an earlier, finished message with another
\* messageId was, the filtered units passed to the engine for a later
\* message are those passed when the earlier text was plain, that is, those
\* of a filter in its initial state.
C38 ==
  \A c \in Conns :
    /\ IsMsg(cur[c], "synthesize")
    /\ pc[c] = "recv"
    /\ At(log[c], "tts_start") # {}
    /\ At(log[c], "error") = {}
    /\ prior[c] \notin {"None", cur[c].msg.messageId}
    => SynthTexts(log[c]) =
         FilteredUnits(split_into_sentences(cur[c].msg.text), 1, NewFilter)

\* C39: add_token returns nothing, or a unit that is not empty and has no
\* whitespace at either end, whatever the tokens are (tokens of whitespace
\* that take the buffer over max_buffer_length included).
C39 ==
  sz.last.op = "add_token" /\ ~sz.last.none =>
    /\ sz.last.unit # <<>>
    /\ ~IsSpace(sz.last.unit[1])
    /\ ~IsSpace(sz.last.unit[Len(sz.last.unit)])

\* the unit cut at the offset at of the buffer b ends at an inner dot of an
\* abbreviation of the table that the buffer holds as a word, so that the
\* rest of the abbreviation starts what is left
InsideAbbreviation(b, at) ==
  \E abbr \in ABBREVIATIONS :
    \E k \in 1..(Len(abbr) - 1) :
      /\ abbr[k] = "."
      /\ at >= k
      /\ at - k + Len(abbr) <= Len(b)
      /\ lower(SubSeq(b, at - k + 1, at - k + Len(abbr))) = abbr
      /\ at - k = 0 \/ IsSpace(b[at - k])

\* C40: add_token places no sentence boundary inside an abbreviation of the
\* table: when the buffer holds an abbreviation with inner dots (e.g., a.m.,
\* ph.d.), no unit returned ends at an inner dot of it and leaves the rest
\* of it at the start of the buffer.
C40 ==
  sz.last.op = "add_token" /\ ~sz.last.none =>
    ~InsideAbbreviation(sz.last.buffered, sz.last.at)

====
